---- MODULE Spec2Model ----
(***************************************************************************)
(* Part 1: voice session orchestrator (voice-agent-rust/crates/agent/src/  *)
(* voice_session.rs).  VoiceSession's methods take &self and keep the      *)
(* session state behind Arc<RwLock<..>>, so callers on different tasks     *)
(* (transport reader, silence timer, coordinator) run them concurrently.   *)
(* Every step below is one access to shared data: a lock-protected read    *)
(* or write of `state`, one event_tx.send, or one call into the STT, the   *)
(* TTS or the agent.                                                       *)
(*                                                                         *)
(* Part 2: dialogue state tracker (voice-agent/backend/crates/agent/src/   *)
(* dst/mod.rs, dst/slots.rs).  Its methods take &mut self: each call is    *)
(* one step, computed by operators that follow the code.  The two parts    *)
(* have their own variables and their own specification (Spec, DstSpec).   *)
(***************************************************************************)
EXTENDS Integers, Sequences, FiniteSets, TLC

\* ---------------------------------------------------------------- bounds
MaxOps == 3          \* method invocations in one behaviour
MaxChunks == 2       \* audio chunks of the longest reply
MaxDstOps == 2       \* calls on the dialogue state tracker in one behaviour
MaxGoalOps == 2      \* goal updates in one behaviour
MaxIntentOps == 3    \* intents recorded in one behaviour
MaxArchOps == 4      \* calls that change the archival memory in one behaviour
MaxMemOps == 4       \* turns added and compactions in one behaviour
MaxRagOps == 3       \* prefetch calls and clock ticks in one behaviour
MaxInFlight == 2     \* retrievals in flight at a time

\* the tasks that call the session's methods: the coordinator that starts
\* and ends the session and the transport reader that feeds it
Tasks == {1, 2}
Reasons == {"done", "timeout"}
\* audio frames, amplitudes in hundredths: empty, quiet, loud
Frames == {<< >>, <<5, 5>>, <<50, 5>>}

\* ------------------------------------------------------ VoiceSessionState
VoiceSessionState == {"Idle", "Listening", "Processing", "Speaking", "Ended"}

VARIABLES
    state,       \* VoiceSession.state (Arc<RwLock<VoiceSessionState>>)
    config,      \* VoiceSession.config (barge_in_enabled)
    sub,         \* a subscriber of event_tx: what the events received so far amount to
    subPrev,     \* the same before the last event was received
    unsent,      \* effective writes of state, <<old, new>>, not yet announced, in lock order
    task,        \* per task: the method it runs and that method's locals
    tts,         \* StreamingTts
    stt,         \* StreamingStt
    stale,       \* a barge-in returned to Listening and the STT was not reset since
    nops         \* method invocations so far

vars == <<state, config, sub, subPrev, unsent, task, tts, stt, stale, nops>>

\* the dialogue state tracker (voice-agent/backend/crates/agent/src/dst):
\* an object of its own, used through &mut self, one call at a time
VARIABLES
    tracker,     \* DialogueStateTracker: state, history, config
    call,        \* the last call made on the tracker, with its arguments
    dops         \* calls made on the tracker so far

dstVars == <<tracker, call, dops>>

\* the agentic memory (voice-agent/backend/crates/agent/src/memory): an
\* object of its own, its methods called one at a time
VARIABLES
    memory,      \* AgenticMemory: config, core, recall, archival
    mcall,       \* the last call made on the memory, with what it returned
    mops         \* calls made on the memory so far: the reading of its clock

memVars == <<memory, mcall, mops>>

\* the prefetch side of the DomainAgent (voice-agent/backend/crates/agent/
\* src/agent/rag.rs)
VARIABLES
    agent,       \* DomainAgent: config, retriever, prefetch_cache, retrievals in flight
    rcall,       \* the last call made on the agent, or retrieval completed
    rops,        \* calls made on the agent so far
    clock        \* the monotonic clock, in seconds

ragVars == <<agent, rcall, rops, clock>>

\* the stage machine of the domain configuration (voice-agent/backend/
\* crates/config/src/domain/stages.rs)
VARIABLES
    stages_config,   \* the StagesConfig loaded
    scall            \* the last call made on it

stageVars == <<stages_config, scall>>

\* the MCP endpoint (voice-agent/backend/crates/server/src/mcp_server.rs)
VARIABLES
    request,     \* the JsonRpcRequest received
    response     \* the JsonRpcResponse given to it, once handled

mcpVars == <<request, response>>

\* the slot extractors (voice-agent/backend/crates/agent/src/dst/
\* extractor.rs, voice-agent-rust/crates/agent/src/intent.rs)
VARIABLES
    utterance,   \* the text given to the extractors
    extracted    \* the last extraction made from it

extractVars == <<utterance, extracted>>

\* the variables of the objects that are neither the session, the
\* tracker nor the memory
restVars == <<ragVars, stageVars, mcpVars, extractVars>>

\* what the calls on the agent, on the stage machine, on the endpoint and
\* on the extractors leave alone
ragOthers == <<vars, dstVars, memVars, stageVars, mcpVars, extractVars>>
stageOthers == <<vars, dstVars, memVars, ragVars, mcpVars, extractVars>>
mcpOthers == <<vars, dstVars, memVars, ragVars, stageVars, extractVars>>
extractOthers == <<vars, dstVars, memVars, ragVars, stageVars, mcpVars>>

\* ------------------------------------------------- dialogue state (slots.rs)
\* Option::None of a slot value or an intent; confidences are f32 in
\* [0, 1], kept here in hundredths
None == "None"
FullConfidence == 100
SlotNames == {"gold_weight", "loan_amount"}
SlotValues(n) == IF n = "gold_weight" THEN {"40", "50"} ELSE {"500000"}
\* below min_slot_confidence, between the thresholds, above auto_confirm_confidence
Confidences == {30, 60, 95}
\* the intent the utterances of these behaviours are detected as
IntentNames == {"loan_inquiry"}
IntentConfidence == 80

\* SlotValue::new(value, confidence, turn)
SlotValueNew(value, confidence, turn) ==
    [value |-> value, confidence |-> confidence, turn_set |-> turn, confirmed |-> FALSE]
\* SlotValue::confirm(): self.confirmed = true; self.confidence = 1.0
SlotValueConfirm(v) == [v EXCEPT !.confirmed = TRUE, !.confidence = FullConfidence]

\* GoldLoanDialogueState::new(): slots maps the names of the filled slots
\* (the Some fields and the keys of custom_slots) to their SlotValue
GoldLoanDialogueStateNew ==
    [slots |-> [n \in {} |-> None], primary_intent |-> None, intent_confidence |-> 0,
     secondary_intents |-> << >>, pending_slots |-> {}, confirmed_slots |-> {},
     conversation_goal |-> "exploration", goal_confirmed |-> FALSE, goal_set_turn |-> 0]

get_slot_value(st, slot_name) ==
    IF slot_name \in DOMAIN st.slots THEN st.slots[slot_name].value ELSE None

set_slot_value(st, slot_name, value, confidence) ==
    LET slot_value == SlotValueNew(value, confidence, 0)
    IN  [st EXCEPT !.slots = [n \in DOMAIN st.slots \cup {slot_name} |->
                                 IF n = slot_name THEN slot_value ELSE st.slots[n]]]

mark_pending(st, slot_name) ==
    [st EXCEPT !.confirmed_slots = @ \ {slot_name},
               !.pending_slots = @ \cup {slot_name}]

\* mark_confirmed that leaves the slot in pending_slots
mark_confirmed_keeps_pending(st, slot_name) ==
    [st EXCEPT !.confirmed_slots = @ \cup {slot_name},
               !.slots = [n \in DOMAIN st.slots |->
                             IF n = slot_name THEN SlotValueConfirm(st.slots[n])
                             ELSE st.slots[n]]]

mark_confirmed(st, slot_name) ==
    [st EXCEPT !.pending_slots = @ \ {slot_name},
               !.confirmed_slots = @ \cup {slot_name},
               !.slots = [n \in DOMAIN st.slots |->
                             IF n = slot_name THEN SlotValueConfirm(st.slots[n])
                             ELSE st.slots[n]]]

\* GoldLoanDialogueState::clear_slot
state_clear_slot(st, slot_name) ==
    [st EXCEPT !.pending_slots = @ \ {slot_name},
               !.confirmed_slots = @ \ {slot_name},
               !.slots = [n \in DOMAIN st.slots \ {slot_name} |-> st.slots[n]]]

InSeq(q, x) == \E i \in 1..Len(q) : q[i] = x

\* update_intent that forgets the previous primary intent
update_intent_no_demote(st, intent, confidence) ==
    IF st.primary_intent = intent
    THEN [st EXCEPT !.intent_confidence = confidence]
    ELSE [st EXCEPT !.primary_intent = intent,
                    !.intent_confidence = confidence]

update_intent(st, intent, confidence) ==
    IF st.primary_intent = intent
    THEN [st EXCEPT !.intent_confidence = confidence]
    ELSE [st EXCEPT !.secondary_intents =
                        IF st.primary_intent # None /\ ~InSeq(@, st.primary_intent)
                        THEN Append(@, st.primary_intent) ELSE @,
                    !.primary_intent = intent,
                    !.intent_confidence = confidence]

\* ----------------------------------------------- goals (dst/slots.rs)
\* ConversationGoal, by the names its Display gives
ConversationGoal ==
    {"exploration", "balance_transfer", "new_loan", "eligibility_check",
     "branch_visit", "lead_capture"}

\* ConversationGoal::from_intent
from_intent(intent) ==
    CASE intent \in {"balance_transfer", "switch_lender", "loan_transfer"} -> "balance_transfer"
      [] intent \in {"eligibility_inquiry", "eligibility_check"} -> "eligibility_check"
      [] intent \in {"new_loan", "loan_inquiry", "gold_loan"} -> "new_loan"
      [] intent \in {"branch_inquiry", "find_branch", "schedule_visit", "appointment_request"}
            -> "branch_visit"
      [] intent \in {"callback_request", "capture_lead", "interested", "sms_request"}
            -> "lead_capture"
      [] OTHER -> "exploration"

\* ConversationGoal::required_slots
required_slots(goal) ==
    CASE goal = "exploration" -> << >>
      [] goal = "balance_transfer" -> <<"current_lender", "loan_amount">>
      [] goal = "new_loan" -> <<"gold_weight", "loan_amount">>
      [] goal = "eligibility_check" -> <<"gold_weight">>
      [] goal = "branch_visit" -> <<"location">>
      [] goal = "lead_capture" -> <<"customer_name", "phone_number">>
      [] OTHER -> << >>

\* NextBestAction, as <<variant, argument>>
CallTool(tool) == <<"CallTool", tool>>
AskFor(slot) == <<"AskFor", slot>>

\* ConversationGoal::next_action(filled_slots)
next_action(goal, filled_slots) ==
    CASE goal = "balance_transfer" ->
            LET has_lender == "current_lender" \in filled_slots
                has_amount == "loan_amount" \in filled_slots
                has_rate == "current_interest_rate" \in filled_slots
                has_location == "location" \in filled_slots
                has_contact == "phone_number" \in filled_slots \/ "customer_name" \in filled_slots
            IN  IF has_lender /\ has_amount /\ has_rate THEN CallTool("calculate_savings")
                ELSE IF has_lender /\ has_amount /\ ~has_rate THEN AskFor("current_interest_rate")
                ELSE IF has_lender /\ ~has_amount THEN AskFor("loan_amount")
                ELSE IF has_lender /\ has_amount /\ has_location /\ ~has_contact
                     THEN <<"OfferAppointment", "">>
                ELSE IF has_lender /\ has_amount /\ ~has_location THEN AskFor("location")
                ELSE <<"ExplainProcess", "">>
      [] goal = "new_loan" ->
            LET has_weight == "gold_weight" \in filled_slots
                has_amount == "loan_amount" \in filled_slots
            IN  IF has_weight THEN CallTool("check_eligibility")
                ELSE IF has_amount /\ ~has_weight THEN AskFor("gold_weight")
                ELSE AskFor("loan_amount")
      [] goal = "eligibility_check" ->
            IF "gold_weight" \in filled_slots THEN CallTool("check_eligibility")
            ELSE AskFor("gold_weight")
      [] goal = "branch_visit" ->
            IF "location" \in filled_slots THEN CallTool("find_branches")
            ELSE AskFor("location")
      [] goal = "lead_capture" ->
            LET has_name == "customer_name" \in filled_slots
                has_phone == "phone_number" \in filled_slots
            IN  IF has_name /\ has_phone THEN CallTool("capture_lead")
                ELSE IF has_name /\ ~has_phone THEN AskFor("phone_number")
                ELSE AskFor("customer_name")
      [] OTHER -> <<"DiscoverIntent", "">>

\* GoldLoanDialogueState::filled_slots: the names only, their order unused
filled_slots(st) == DOMAIN st.slots

\* the match of update_goal_from_intent: only upgrade, never downgrade
should_update(conversation_goal, new_goal) ==
    CASE conversation_goal = "exploration" -> TRUE
      [] new_goal = "exploration" -> FALSE
      [] conversation_goal = "balance_transfer" /\ new_goal = "lead_capture" -> TRUE
      [] conversation_goal = "balance_transfer" /\ new_goal = "branch_visit" -> TRUE
      [] conversation_goal = "new_loan" /\ new_goal = "lead_capture" -> TRUE
      [] conversation_goal = "new_loan" /\ new_goal = "branch_visit" -> TRUE
      [] conversation_goal = "eligibility_check" /\ new_goal = "new_loan" -> TRUE
      [] conversation_goal = "eligibility_check" /\ new_goal = "lead_capture" -> TRUE
      [] OTHER -> FALSE

\* GoldLoanDialogueState::update_goal_from_intent
state_update_goal_from_intent(st, intent, turn) ==
    LET new_goal == from_intent(intent)
    IN  IF should_update(st.conversation_goal, new_goal) /\ new_goal # "exploration"
        THEN [st EXCEPT !.conversation_goal = new_goal, !.goal_set_turn = turn]
        ELSE st

\* GoldLoanDialogueState::set_goal
set_goal(st, goal, turn) ==
    [st EXCEPT !.conversation_goal = goal, !.goal_confirmed = TRUE, !.goal_set_turn = turn]

get_next_action(st) == next_action(st.conversation_goal, filled_slots(st))

\* filled required slots over required slots, in hundredths; 1.0 if the
\* goal requires none
goal_completion(st) ==
    LET required == required_slots(st.conversation_goal)
        filled_required == Cardinality({i \in 1..Len(required) : required[i] \in filled_slots(st)})
    IN  IF required = << >> THEN 100 ELSE (filled_required * 100) \div Len(required)

CompletionForCapture == 75
should_auto_capture_lead(st) ==
    LET has_name == "customer_name" \in DOMAIN st.slots
        has_phone == "phone_number" \in DOMAIN st.slots
        has_contact == has_name /\ has_phone
        has_partial_contact == has_name \/ has_phone
    IN  IF st.conversation_goal = "lead_capture" THEN FALSE
        ELSE IF has_contact THEN TRUE
        ELSE IF has_partial_contact /\ goal_completion(st) >= CompletionForCapture THEN TRUE
        ELSE FALSE

\* ------------------------------------------------ tracker (dst/mod.rs)
MinSlotConfidence == 50
AutoConfirmConfidence == 90
CorrectionLookback == 3
CorrectionBoost == 90
DstConfigDefault ==
    [min_slot_confidence |-> MinSlotConfidence, auto_confirm_confidence |-> AutoConfirmConfidence,
     enable_corrections |-> TRUE, correction_lookback |-> CorrectionLookback]
\* the configurations a tracker is built with: the default, and its
\* fields set as with_config allows
DstConfigs ==
    {[DstConfigDefault EXCEPT !.auto_confirm_confidence = a, !.enable_corrections = e,
                              !.correction_lookback = l] :
        a \in {AutoConfirmConfidence, 95}, e \in BOOLEAN, l \in {1, CorrectionLookback}}

ChangeSource == {"UserUtterance", "Correction", "SystemConfirmation", "External"}
\* StateChange (the timestamp is left out)
StateChange(slot_name, old_value, new_value, confidence, source, turn_index) ==
    [slot_name |-> slot_name, old_value |-> old_value, new_value |-> new_value,
     confidence |-> confidence, source |-> source, turn_index |-> turn_index]

\* DialogueStateTracker::with_config (new() is with_config(DstConfig::default()))
with_config(c) == [state |-> GoldLoanDialogueStateNew, history |-> << >>, config |-> c]

\* update_slot that confirms only above auto_confirm_confidence, not at it
update_slot_above_threshold(d, slot_name, value, confidence, source, turn_index) ==
    LET old_value == get_slot_value(d.state, slot_name)
        st == set_slot_value(d.state, slot_name, value, confidence)
    IN  IF old_value = value THEN d
        ELSE [d EXCEPT
                !.history = Append(@, StateChange(slot_name, old_value, value,
                                                  confidence, source, turn_index)),
                !.state = IF confidence <= d.config.auto_confirm_confidence
                          THEN mark_pending(st, slot_name)
                          ELSE mark_confirmed(st, slot_name)]

update_slot(d, slot_name, value, confidence, source, turn_index) ==
    LET old_value == get_slot_value(d.state, slot_name)
        st == set_slot_value(d.state, slot_name, value, confidence)
    IN  IF old_value = value THEN d
        ELSE [d EXCEPT
                !.history = Append(@, StateChange(slot_name, old_value, value,
                                                  confidence, source, turn_index)),
                !.state = IF confidence < d.config.auto_confirm_confidence
                          THEN mark_pending(st, slot_name)
                          ELSE mark_confirmed(st, slot_name)]

confirm_slot(d, slot_name) ==
    LET st == mark_confirmed(d.state, slot_name)
    IN  [d EXCEPT !.state = st,
                  !.history = Append(@, StateChange(slot_name, get_slot_value(st, slot_name),
                                                    get_slot_value(st, slot_name), FullConfidence,
                                                    "SystemConfirmation", Len(d.history)))]

\* clear_slot that does not record the change
clear_slot_unrecorded(d, slot_name) ==
    [d EXCEPT !.state = state_clear_slot(@, slot_name)]

\* DialogueStateTracker::clear_slot
clear_slot(d, slot_name) ==
    [d EXCEPT !.state = state_clear_slot(@, slot_name),
              !.history = Append(@, StateChange(slot_name, get_slot_value(d.state, slot_name),
                                                None, FullConfidence, "UserUtterance",
                                                Len(d.history)))]

Max(a, b) == IF a > b THEN a ELSE b

\* history.iter().rev().take(correction_lookback).filter(slot_name).first():
\* the index of the latest change of the slot among the last
\* correction_lookback entries, 0 if there is none
recent_change(d, slot_name) ==
    LET k == Len(d.history)
        idx == {i \in Max(1, k - d.config.correction_lookback + 1)..k :
                    d.history[i].slot_name = slot_name}
    IN  IF idx = {} THEN 0 ELSE CHOOSE i \in idx : \A j \in idx : j <= i

\* new_slots: the entries of intent.slots in the order the map iterates
RECURSIVE detect_and_apply_corrections(_, _, _)
detect_and_apply_corrections(d, new_slots, turn_index) ==
    IF new_slots = << >> THEN d
    ELSE LET new_slot == Head(new_slots)
             recent == recent_change(d, new_slot.name)
             d1 == IF /\ new_slot.value # None
                      /\ recent # 0
                      /\ d.history[recent].new_value # new_slot.value
                   THEN update_slot(d, new_slot.name, new_slot.value,
                                    Max(new_slot.confidence, CorrectionBoost),
                                    "Correction", turn_index)
                   ELSE d
         IN  detect_and_apply_corrections(d1, Tail(new_slots), turn_index)

\* for (slot_name, slot) in &intent.slots { .. } of update
RECURSIVE update_from_slots(_, _, _)
update_from_slots(d, slots, turn_index) ==
    IF slots = << >> THEN d
    ELSE LET slot == Head(slots)
             d1 == IF slot.confidence >= d.config.min_slot_confidence /\ slot.value # None
                   THEN update_slot(d, slot.name, slot.value, slot.confidence,
                                    "UserUtterance", turn_index)
                   ELSE d
         IN  update_from_slots(d1, Tail(slots), turn_index)

RECURSIVE confirm_pending(_, _, _)
confirm_pending(st, pending, auto_confirm_confidence) ==
    IF pending = {} THEN st
    ELSE LET slot_name == CHOOSE n \in pending : TRUE
             st1 == IF /\ slot_name \in DOMAIN st.slots
                       /\ st.slots[slot_name].confidence >= auto_confirm_confidence
                    THEN mark_confirmed(st, slot_name) ELSE st
         IN  confirm_pending(st1, pending \ {slot_name}, auto_confirm_confidence)

check_auto_confirmations(d) ==
    [d EXCEPT !.state = confirm_pending(@, d.state.pending_slots,
                                        d.config.auto_confirm_confidence)]

update(d, intent) ==
    LET turn_index == Len(d.history)
        d1 == IF d.config.enable_corrections
              THEN detect_and_apply_corrections(d, intent.slots, turn_index)
              ELSE d
        d2 == update_from_slots(d1, intent.slots, turn_index)
        d3 == [d2 EXCEPT !.state = update_intent(@, intent.intent, intent.confidence)]
    IN  check_auto_confirmations(d3)

\* DialogueStateTracker::is_intent_complete, no domain view being set
is_intent_complete(d, intent) ==
    CASE intent = "eligibility_check" -> "gold_weight" \in DOMAIN d.state.slots
      [] intent = "switch_lender" -> "current_lender" \in DOMAIN d.state.slots
      [] intent = "schedule_visit" -> "location" \in DOMAIN d.state.slots
      [] intent = "send_sms" -> "phone_number" \in DOMAIN d.state.slots
      [] OTHER -> TRUE

\* DialogueStateTracker::update_goal_from_intent, no domain view being set
update_goal_from_intent(d, intent, turn) ==
    IF intent # "unknown" /\ intent # "exploration"
    THEN [d EXCEPT !.state = set_goal(@, intent, turn)]
    ELSE d

NoCall == [op |-> "none", turn_index |-> 0, args |-> << >>]

\* ------------------------------------------------- prefetch (agent/rag.rs)
\* A text is the sequence of its characters. An Option is the empty
\* sequence (None) or a sequence of one value (Some).
Space == " "

\* str::contains: b is a substring of a
Contains(a, b) ==
    \E i \in 0..(Len(a) - Len(b)) : SubSeq(a, i + 1, i + Len(b)) = b

\* str::to_lowercase
LowerOf(c) == IF c = "G" THEN "g" ELSE IF c = "L" THEN "l" ELSE c
to_lowercase(t) == [i \in 1..Len(t) |-> LowerOf(t[i])]

\* split_whitespace().count(): the number of places where a word begins
word_count(t) ==
    Cardinality({i \in 1..Len(t) : t[i] # Space /\ (i = 1 \/ t[i - 1] = Space)})

BackgroundMinWords == 2
BackgroundCacheSecs == 2
FreshSecs == 10

\* the agent as DomainAgent::new leaves it: no prefetch entry, nothing in
\* flight; retriever: agentic_retriever and vector_store are both Some;
\* min_words, cache_ttl_secs: what the rag_timing_strategy answers
DomainAgentNew(rag_enabled, retriever, min_words, cache_ttl_secs) ==
    [config |-> [rag_enabled |-> rag_enabled, min_words |-> min_words,
                 cache_ttl_secs |-> cache_ttl_secs],
     retriever |-> retriever, prefetch_cache |-> << >>, tasks |-> << >>]

\* PrefetchEntry { query, results, timestamp }
PrefetchEntry(query, results, timestamp) ==
    [query |-> query, results |-> results, timestamp |-> timestamp]

\* prefetch_on_partial up to the retrieval: TRUE when it returns false
\* without retrieving; should_prefetch: what the timing strategy answers
\* for the confidence and the stage
prefetch_on_partial_skips(a, partial, should_prefetch, t) ==
    \/ ~a.config.rag_enabled
    \/ ~a.retriever
    \/ ~should_prefetch
    \/ word_count(partial) < a.config.min_words
    \/ /\ a.prefetch_cache # << >>
       /\ t - a.prefetch_cache[1].timestamp < a.config.cache_ttl_secs
       /\ Contains(partial, a.prefetch_cache[1].query)

\* prefetch_on_partial after the retrieval, the agent afterwards: results
\* that came and are not empty are stored; outcome: the Result of the
\* retrieval
prefetch_on_partial_completes(a, partial, outcome, t) ==
    IF outcome.ok /\ outcome.results # << >>
    THEN [a EXCEPT !.prefetch_cache = <<PrefetchEntry(partial, outcome.results, t)>>]
    ELSE a

\* what prefetch_on_partial returns after the retrieval
prefetch_on_partial_returns(outcome) == outcome.ok /\ outcome.results # << >>

\* prefetch_background up to the spawn: TRUE when it returns without
\* spawning the retrieval
prefetch_background_skips(a, partial, t) ==
    \/ ~a.config.rag_enabled
    \/ ~a.retriever
    \/ word_count(partial) < BackgroundMinWords
    \/ /\ a.prefetch_cache # << >>
       /\ t - a.prefetch_cache[1].timestamp < BackgroundCacheSecs
       /\ Contains(partial, a.prefetch_cache[1].query)

\* a background task that stores what it retrieved
background_task_caches(a, partial, outcome, t) ==
    IF outcome.ok /\ outcome.results # << >>
    THEN [a EXCEPT !.prefetch_cache = <<PrefetchEntry(partial, outcome.results, t)>>]
    ELSE a

\* the task prefetch_background spawned, after its retrieval: the outcome
\* is logged
background_task_completes(a, partial, outcome, t) == a

\* get_prefetch_results(query): None, or Some of the results of the entry
get_prefetch_results(a, query, t) ==
    IF a.prefetch_cache = << >> THEN << >>
    ELSE IF t - a.prefetch_cache[1].timestamp > FreshSecs THEN << >>
    ELSE IF \/ Contains(to_lowercase(query), to_lowercase(a.prefetch_cache[1].query))
            \/ Contains(to_lowercase(a.prefetch_cache[1].query), to_lowercase(query))
         THEN <<a.prefetch_cache[1].results>>
         ELSE << >>

\* clear_prefetch_cache()
clear_prefetch_cache(a) == [a EXCEPT !.prefetch_cache = << >>]

NoRagCall == [op |-> "none", args |-> << >>, result |-> << >>]

\* --------------------------------------- stage machine (domain/stages.rs)
\* A HashMap is a function on the set of its keys.
\* StagesConfig::default(), of which only the stages and the intent
\* transitions are kept
StagesConfigDefault == [stages |-> << >>, intent_transitions |-> << >>]

\* IntentTransitionTarget::Simple(target),
\* IntentTransitionTarget::Complex(IntentTransition { target, min_turns })
Simple(target) == [variant |-> "Simple", target |-> target]
Complex(target, min_turns) ==
    [variant |-> "Complex", target |-> target, min_turns |-> min_turns]

\* IntentTransitionTarget::target, IntentTransitionTarget::min_turns
target_of(t) == t.target
min_turns_of(t) == IF t.variant = "Simple" THEN 0 ELSE t.min_turns

\* is_valid_transition(from, to)
is_valid_transition(c, from, to) ==
    IF from \in DOMAIN c.stages
    THEN \E i \in 1..Len(c.stages[from].transitions) :
            c.stages[from].transitions[i] = to
    ELSE FALSE

\* get_intent_transition(intent, current_stage): None, or Some of the
\* target and its min_turns
get_intent_transition(c, intent, current_stage) ==
    IF intent \notin DOMAIN c.intent_transitions THEN << >>
    ELSE IF current_stage \notin DOMAIN c.intent_transitions[intent] THEN << >>
    ELSE <<[target |-> target_of(c.intent_transitions[intent][current_stage]),
            min_turns |-> min_turns_of(c.intent_transitions[intent][current_stage])]>>

\* a can_transition_on_intent that does not look at the turns
can_transition_on_intent_any_turns(c, intent, current_stage, current_turns) ==
    LET t == get_intent_transition(c, intent, current_stage)
    IN  IF t = << >> THEN << >> ELSE <<t[1].target>>

\* can_transition_on_intent(intent, current_stage, current_turns): None,
\* or Some of the target
can_transition_on_intent(c, intent, current_stage, current_turns) ==
    LET t == get_intent_transition(c, intent, current_stage)
    IN  IF t = << >> THEN << >>
        ELSE IF current_turns >= t[1].min_turns THEN <<t[1].target>>
        ELSE << >>

NoStageCall == [op |-> "none", args |-> << >>, result |-> << >>]

StagesIdle ==
    /\ stages_config = StagesConfigDefault
    /\ scall = NoStageCall

\* ---------------------------------------- MCP endpoint (server/mcp_server.rs)
\* An Option is the empty sequence (None) or a sequence of one value.
\* methods::TOOLS_LIST, methods::TOOLS_CALL
TOOLS_LIST == "tools/list"
TOOLS_CALL == "tools/call"

InvalidRequest == -32600
MethodNotFound == -32601
InvalidParams == -32602

\* JsonRpcResponse::error(id, JsonRpcError { code, message, data: None })
JsonRpcResponseError(id, code, message) ==
    [variant |-> "error", id |-> id, error |-> [code |-> code, message |-> message]]

\* JsonRpcResponse::success(id, result)
JsonRpcResponseSuccess(id, result) ==
    [variant |-> "success", id |-> id, result |-> result]

\* JsonRpcResponse::from_tool_error(id, tool_error)
from_tool_error(id, tool_error) ==
    [variant |-> "tool error", id |-> id, tool_error |-> tool_error]

\* id.clone().unwrap_or(RequestId::Number(0))
IdOrZero(id) == IF id = << >> THEN 0 ELSE id[1]

\* handle_tools_list(state, request); tools: what state.tools.list_tools() gives
handle_tools_list(tools, req) ==
    JsonRpcResponseSuccess(IdOrZero(req.id), [tools |-> tools])

\* handle_tools_call(state, request); executed: the Result of
\* state.tools.execute(name, arguments)
handle_tools_call(req, executed) ==
    IF req.params = << >>
    THEN JsonRpcResponseError(req.id, InvalidParams, "Missing params for tools/call")
    ELSE IF ~req.params[1].parses
    THEN JsonRpcResponseError(req.id, InvalidParams, "Invalid params")
    ELSE IF executed.ok
    THEN JsonRpcResponseSuccess(IdOrZero(req.id),
                                [content |-> executed.content, isError |-> executed.is_error])
    ELSE from_tool_error(req.id, executed.tool_error)

\* a handle_mcp_request that looks at the method first
handle_mcp_request_method_first(tools, req, executed) ==
    IF req.method = TOOLS_LIST THEN handle_tools_list(tools, req)
    ELSE IF req.method = TOOLS_CALL THEN handle_tools_call(req, executed)
    ELSE IF req.jsonrpc # "2.0"
    THEN JsonRpcResponseError(req.id, InvalidRequest, "Invalid Request: jsonrpc must be 2.0")
    ELSE JsonRpcResponseError(req.id, MethodNotFound, "Method not found")

\* handle_mcp_request(State(state), Json(request))
handle_mcp_request(tools, req, executed) ==
    IF req.jsonrpc # "2.0"
    THEN JsonRpcResponseError(req.id, InvalidRequest, "Invalid Request: jsonrpc must be 2.0")
    ELSE IF req.method = TOOLS_LIST THEN handle_tools_list(tools, req)
    ELSE IF req.method = TOOLS_CALL THEN handle_tools_call(req, executed)
    ELSE JsonRpcResponseError(req.id, MethodNotFound, "Method not found")

NoRequest == [jsonrpc |-> "", id |-> << >>, method |-> "", params |-> << >>]
NoResponse == [variant |-> "none"]

McpIdle ==
    /\ request = NoRequest
    /\ response = NoResponse

RagIdle ==
    /\ agent = DomainAgentNew(TRUE, TRUE, BackgroundMinWords, FreshSecs)
    /\ rcall = NoRagCall
    /\ rops = 0
    /\ clock = 0

\* ----------------------- slot extractors (dst/extractor.rs, agent/intent.rs)
\* A text is the sequence of its characters, all of them ASCII. A number
\* is a decimal numeral kept as its digits: int without leading zeros,
\* frac without trailing zeros.
DigitChars == <<"0", "1", "2", "3", "4", "5", "6", "7", "8", "9">>
LetterChars == {"a", "b", "c", "d", "e", "f", "g", "h", "i", "j", "k", "l", "m",
                "n", "o", "p", "q", "r", "s", "t", "u", "v", "w", "x", "y", "z"}
IsDigit(c) == \E n \in 1..10 : DigitChars[n] = c
DigitValue(c) == (CHOOSE n \in 1..10 : DigitChars[n] = c) - 1
\* \w of the regex crate, on ASCII
IsWordChar(c) == IsDigit(c) \/ c \in LetterChars \/ c = "_"
CharAt(t, i) == IF i \in 1..Len(t) THEN t[i] ELSE ""
Least(S) == CHOOSE i \in S : \A j \in S : i <= j

StartsWithAt(t, i, w) == i + Len(w) - 1 <= Len(t) /\ SubSeq(t, i, i + Len(w) - 1) = w

\* str::find: the index of the first occurrence, 0 when there is none
Find(t, w) ==
    IF Contains(t, w) THEN Least({i \in 1..(Len(t) + 1) : StartsWithAt(t, i, w)}) ELSE 0

\* str::replace(',', "")
RECURSIVE RemoveCommas(_)
RemoveCommas(t) ==
    IF t = << >> THEN << >>
    ELSE IF Head(t) = "," THEN RemoveCommas(Tail(t))
    ELSE <<Head(t)>> \o RemoveCommas(Tail(t))

\* str::trim
RECURSIVE TrimStart(_)
TrimStart(t) == IF t # << >> /\ Head(t) = Space THEN TrimStart(Tail(t)) ELSE t
RECURSIVE TrimEnd(_)
TrimEnd(t) ==
    IF t # << >> /\ t[Len(t)] = Space THEN TrimEnd(SubSeq(t, 1, Len(t) - 1)) ELSE t
Trim(t) == TrimEnd(TrimStart(t))

\* str::split_whitespace: the words, in order
RECURSIVE split_whitespace(_)
split_whitespace(t) ==
    LET u == TrimStart(t)
    IN  IF u = << >> THEN << >>
        ELSE LET n == Least({i \in 1..Len(u) : CharAt(u, i + 1) \in {Space, ""}})
             IN  <<SubSeq(u, 1, n)>> \o split_whitespace(SubSeq(u, n + 1, Len(u)))

RECURSIVE StripLeadingZeros(_)
StripLeadingZeros(d) ==
    IF d # << >> /\ Head(d) = "0" THEN StripLeadingZeros(Tail(d)) ELSE d
RECURSIVE StripTrailingZeros(_)
StripTrailingZeros(d) ==
    IF d # << >> /\ d[Len(d)] = "0" THEN StripTrailingZeros(SubSeq(d, 1, Len(d) - 1)) ELSE d
Zeros(n) == [i \in 1..n |-> "0"]
Number(int, frac) == [int |-> StripLeadingZeros(int), frac |-> StripTrailingZeros(frac)]

\* str::parse::<f64> succeeds on digits with at most one point among them
ParsesF64(t) ==
    /\ \E i \in 1..Len(t) : IsDigit(t[i])
    /\ \A i \in 1..Len(t) : IsDigit(t[i]) \/ t[i] = "."
    /\ Cardinality({i \in 1..Len(t) : t[i] = "."}) <= 1

\* the number str::parse::<f64> gives for such a text
parse_f64(t) ==
    LET p == Find(t, <<".">>)
    IN  IF p = 0 THEN Number(t, << >>)
        ELSE Number(SubSeq(t, 1, p - 1), SubSeq(t, p + 1, Len(t)))

\* num * 10^power
TimesPowerOfTen(num, power) ==
    LET frac == num.frac \o Zeros(IF power > Len(num.frac) THEN power - Len(num.frac) ELSE 0)
    IN  Number(num.int \o SubSeq(frac, 1, power), SubSeq(frac, power + 1, Len(frac)))

\* a < b, for digits without leading zeros
RECURSIVE DigitsLess(_, _)
DigitsLess(a, b) ==
    IF Len(a) # Len(b) THEN Len(a) < Len(b)
    ELSE IF a = << >> THEN FALSE
    ELSE IF Head(a) # Head(b) THEN DigitValue(Head(a)) < DigitValue(Head(b))
    ELSE DigitsLess(Tail(a), Tail(b))

\* a < b
NumberLess(a, b) ==
    \/ DigitsLess(a.int, b.int)
    \/ /\ a.int = b.int
       /\ LET n == IF Len(a.frac) > Len(b.frac) THEN Len(a.frac) ELSE Len(b.frac)
          IN  DigitsLess(StripLeadingZeros(a.frac \o Zeros(n - Len(a.frac))),
                         StripLeadingZeros(b.frac \o Zeros(n - Len(b.frac))))

Billion == Number(<<"1">> \o Zeros(9), << >>)
I64Max == Number(<<"9", "2", "2", "3", "3", "7", "2", "0", "3", "6", "8", "5", "4", "7",
                   "7", "5", "8", "0", "7">>, << >>)

\* AmountMultiplier::value, as the power of ten it is
Unit == 0
Thousand == 3
Lakh == 5
Crore == 7

\* the end of the digits that begin at i
DigitRunEnd(t, i) ==
    Least({j \in i..Len(t) : ~IsDigit(CharAt(t, j + 1))})

\* where \s* ends when it begins at i
SkipSpaces(t, i) ==
    Least({j \in i..(Len(t) + 1) : CharAt(t, j) # Space})

\* (\d+(?:\.\d+)?)\s*(?:unit|...) matched at i: the end of group 1, or 0
NumberUnitEnd(t, i, units) ==
    IF ~IsDigit(CharAt(t, i)) THEN 0
    ELSE LET e1 == DigitRunEnd(t, i)
             e2 == IF CharAt(t, e1 + 1) = "." /\ IsDigit(CharAt(t, e1 + 2))
                   THEN DigitRunEnd(t, e1 + 2) ELSE e1
             unit_at(j) == \E u \in units : StartsWithAt(t, SkipSpaces(t, j), u)
         IN  IF unit_at(e2 + 1) THEN e2 ELSE IF unit_at(e1 + 1) THEN e1 ELSE 0

\* Regex::captures for such a pattern: group 1 of the leftmost match
captures_number_unit(t, units) ==
    LET at == {i \in 1..Len(t) : NumberUnitEnd(t, i, units) # 0}
    IN  IF at = {} THEN << >>
        ELSE <<SubSeq(t, Least(at), NumberUnitEnd(t, Least(at), units))>>

\* the end of \d+(?:,\d+)* that begins at i
RECURSIVE GroupedEnd(_, _)
GroupedEnd(t, i) ==
    LET e == DigitRunEnd(t, i)
    IN  IF CharAt(t, e + 1) = "," /\ IsDigit(CharAt(t, e + 2))
        THEN GroupedEnd(t, e + 2) ELSE e

\* (?:rs\.?|rupees?)\s*(\d+(?:,\d+)*) matched at i: where group 1 begins,
\* or 0
RupeesNumberStart(t, i) ==
    LET after == IF StartsWithAt(t, i, <<"r", "s", ".">>) THEN i + 3
                 ELSE IF StartsWithAt(t, i, <<"r", "s">>) THEN i + 2
                 ELSE IF StartsWithAt(t, i, <<"r", "u", "p", "e", "e", "s">>) THEN i + 6
                 ELSE IF StartsWithAt(t, i, <<"r", "u", "p", "e", "e">>) THEN i + 5
                 ELSE 0
    IN  IF after # 0 /\ IsDigit(CharAt(t, SkipSpaces(t, after)))
        THEN SkipSpaces(t, after) ELSE 0

captures_rupees(t) ==
    LET at == {i \in 1..Len(t) : RupeesNumberStart(t, i) # 0}
    IN  IF at = {} THEN << >>
        ELSE <<SubSeq(t, RupeesNumberStart(t, Least(at)),
                      GroupedEnd(t, RupeesNumberStart(t, Least(at))))>>

\* \b(\d{5,8})\b matched at i
PlainNumberAt(t, i) ==
    /\ IsDigit(CharAt(t, i))
    /\ ~IsWordChar(CharAt(t, i - 1))
    /\ DigitRunEnd(t, i) - i + 1 \in 5..8
    /\ ~IsWordChar(CharAt(t, DigitRunEnd(t, i) + 1))

captures_plain(t) ==
    LET at == {i \in 1..Len(t) : PlainNumberAt(t, i)}
    IN  IF at = {} THEN << >> ELSE <<SubSeq(t, Least(at), DigitRunEnd(t, Least(at)))>>

\* build_amount_patterns(): the patterns in their order, each with its
\* multiplier
amount_patterns ==
    <<[pattern |-> "crore", multiplier |-> Crore],
      [pattern |-> "lakh", multiplier |-> Lakh],
      [pattern |-> "thousand", multiplier |-> Thousand],
      [pattern |-> "rupees", multiplier |-> Unit],
      [pattern |-> "plain", multiplier |-> Unit]>>

captures(pattern, t) ==
    IF pattern = "crore" THEN captures_number_unit(t, {<<"c", "r", "o", "r", "e">>, <<"c", "r">>})
    ELSE IF pattern = "lakh" THEN captures_number_unit(t, {<<"l", "a", "k", "h">>, <<"l", "a", "c">>})
    ELSE IF pattern = "thousand"
    THEN captures_number_unit(t, {<<"t", "h", "o", "u", "s", "a", "n", "d">>, <<"k">>, <<"h", "a", "z", "a", "r">>})
    ELSE IF pattern = "rupees" THEN captures_rupees(t)
    ELSE captures_plain(t)

\* clean_str.len() == 10 with a first character from '6' to '9'
LooksLikePhone(clean_str) ==
    Len(clean_str) = 10 /\ clean_str[1] \in {"6", "7", "8", "9"}

HighConfidence == 90
LowConfidence == 70

\* the loop of extract_amount from the k-th pattern on; lower: the
\* utterance in lower case
RECURSIVE extract_amount_from(_, _)
extract_amount_from(lower, k) ==
    IF k > Len(amount_patterns) THEN << >>
    ELSE LET caps == captures(amount_patterns[k].pattern, lower)
             num_str == RemoveCommas(caps[1])
             amount == TimesPowerOfTen(parse_f64(num_str), amount_patterns[k].multiplier)
         IN  IF caps = << >> THEN extract_amount_from(lower, k + 1)
             ELSE IF ~ParsesF64(num_str) THEN extract_amount_from(lower, k + 1)
             ELSE IF LooksLikePhone(RemoveCommas(num_str))
             THEN extract_amount_from(lower, k + 1)
             ELSE IF NumberLess(Billion, amount) THEN extract_amount_from(lower, k + 1)
             ELSE <<[amount |-> amount,
                     confidence |->
                        IF \/ Contains(lower, <<"l", "o", "a", "n">>)
                           \/ Contains(lower, <<"l", "a", "k", "h">>)
                           \/ Contains(lower, <<"a", "m", "o", "u", "n", "t">>)
                           \/ Contains(lower, <<"c", "h", "a", "h", "i", "y", "e">>)
                        THEN HighConfidence ELSE LowConfidence]>>

\* SlotExtractor::extract_amount(utterance): None, or Some of the amount
\* and the confidence
extract_amount(text) == extract_amount_from(to_lowercase(text), 1)

\* the number words of extract_number_before, in their order
hindi_numbers ==
    <<[word |-> <<"e", "k">>, value |-> <<"1">>],
      [word |-> <<"d", "o">>, value |-> <<"2">>],
      [word |-> <<"t", "e", "e", "n">>, value |-> <<"3">>],
      [word |-> <<"c", "h", "a", "r">>, value |-> <<"4">>],
      [word |-> <<"p", "a", "a", "n", "c", "h">>, value |-> <<"5">>],
      [word |-> <<"p", "a", "n", "c", "h">>, value |-> <<"5">>],
      [word |-> <<"c", "h", "e">>, value |-> <<"6">>],
      [word |-> <<"s", "a", "a", "t">>, value |-> <<"7">>],
      [word |-> <<"a", "a", "t", "h">>, value |-> <<"8">>],
      [word |-> <<"n", "a", "u">>, value |-> <<"9">>],
      [word |-> <<"d", "a", "s">>, value |-> <<"1", "0">>],
      [word |-> <<"b", "e", "e", "s">>, value |-> <<"2", "0">>],
      [word |-> <<"p", "a", "c", "h", "e", "e", "s">>, value |-> <<"2", "5">>],
      [word |-> <<"p", "a", "c", "h", "a", "s">>, value |-> <<"5", "0">>],
      [word |-> <<"o", "n", "e">>, value |-> <<"1">>],
      [word |-> <<"t", "w", "o">>, value |-> <<"2">>],
      [word |-> <<"t", "h", "r", "e", "e">>, value |-> <<"3">>],
      [word |-> <<"f", "o", "u", "r">>, value |-> <<"4">>],
      [word |-> <<"f", "i", "v", "e">>, value |-> <<"5">>],
      [word |-> <<"s", "i", "x">>, value |-> <<"6">>],
      [word |-> <<"s", "e", "v", "e", "n">>, value |-> <<"7">>],
      [word |-> <<"e", "i", "g", "h", "t">>, value |-> <<"8">>],
      [word |-> <<"n", "i", "n", "e">>, value |-> <<"9">>],
      [word |-> <<"t", "e", "n">>, value |-> <<"1", "0">>],
      [word |-> <<"t", "w", "e", "n", "t", "y">>, value |-> <<"2", "0">>],
      [word |-> <<"f", "i", "f", "t", "y">>, value |-> <<"5", "0">>]>>

\* IntentDetector::extract_number_before(text): None, or Some of the number
extract_number_before(text) ==
    LET ok(c) == IsDigit(c) \/ c = "." \/ c = Space
        from == Least({i \in 1..(Len(text) + 1) : \A k \in i..Len(text) : ok(text[k])})
        number_str == Trim(SubSeq(text, from, Len(text)))
        said == {n \in 1..Len(hindi_numbers) :
                    Contains(to_lowercase(text), hindi_numbers[n].word)}
    IN  IF ParsesF64(number_str) THEN <<parse_f64(number_str)>>
        ELSE IF said # {} THEN <<Number(hindi_numbers[Least(said)].value, << >>)>>
        ELSE << >>

\* format!("{}", num as i64): the cast drops the fraction and stops at
\* i64::MAX
FormatAsI64(num) ==
    LET n == IF NumberLess(I64Max, num) THEN I64Max ELSE num
    IN  IF n.int = << >> THEN <<"0">> ELSE n.int

\* format!("{}", num) of an f64
FormatF64(num) ==
    (IF num.int = << >> THEN <<"0">> ELSE num.int)
        \o (IF num.frac = << >> THEN << >> ELSE <<".">> \o num.frac)

\* str::parse::<i64> succeeds on digits that make a number up to i64::MAX
ParsesI64(word) ==
    /\ word # << >>
    /\ \A i \in 1..Len(word) : IsDigit(word[i])
    /\ ~NumberLess(I64Max, Number(word, << >>))

MinAmount == Number(<<"1", "0", "0", "0">>, << >>)

\* the first of the words that is a whole number of at least 1000
RECURSIVE FirstAmountWord(_)
FirstAmountWord(words) ==
    IF words = << >> THEN << >>
    ELSE IF /\ ParsesI64(Head(words))
            /\ ~NumberLess(Number(Head(words), << >>), MinAmount)
    THEN <<FormatAsI64(Number(Head(words), << >>))>>
    ELSE FirstAmountWord(Tail(words))

\* the number before the first occurrence of unit in text_lower
NumberBefore(text_lower, unit) ==
    extract_number_before(SubSeq(text_lower, 1, Find(text_lower, unit) - 1))

\* the "loan_amount" arm of extract_slot_value
extract_loan_amount(text_lower) ==
    LET thousand == IF Contains(text_lower, <<"t", "h", "o", "u", "s", "a", "n", "d">>) THEN <<"t", "h", "o", "u", "s", "a", "n", "d">>
                    ELSE IF Contains(text_lower, <<"h", "a", "z", "a", "r">>) THEN <<"h", "a", "z", "a", "r">>
                    ELSE <<"h", "a", "z", "a", "a", "r">>
    IN  IF /\ Contains(text_lower, <<"c", "r", "o", "r", "e">>)
           /\ NumberBefore(text_lower, <<"c", "r", "o", "r", "e">>) # << >>
        THEN <<FormatAsI64(TimesPowerOfTen(NumberBefore(text_lower, <<"c", "r", "o", "r", "e">>)[1], 7))>>
        ELSE IF /\ Contains(text_lower, <<"l", "a", "k", "h">>)
                /\ NumberBefore(text_lower, <<"l", "a", "k", "h">>) # << >>
        THEN <<FormatAsI64(TimesPowerOfTen(NumberBefore(text_lower, <<"l", "a", "k", "h">>)[1], 5))>>
        ELSE IF /\ Contains(text_lower, thousand)
                /\ NumberBefore(text_lower, thousand) # << >>
        THEN <<FormatAsI64(TimesPowerOfTen(NumberBefore(text_lower, thousand)[1], 3))>>
        ELSE FirstAmountWord(split_whitespace(RemoveCommas(text_lower)))

\* the "gold_weight" arm: the first word that is a number, when the text
\* speaks of grams
RECURSIVE FirstNumberWord(_)
FirstNumberWord(words) ==
    IF words = << >> THEN << >>
    ELSE IF ParsesF64(Head(words)) THEN <<FormatF64(parse_f64(Head(words)))>>
    ELSE FirstNumberWord(Tail(words))

extract_gold_weight(text_lower) ==
    IF Contains(text_lower, <<"g", "r", "a", "m">>) \/ Contains(text_lower, <<"g", "m">>)
    THEN FirstNumberWord(split_whitespace(text_lower))
    ELSE << >>

\* the "current_lender" arm
extract_current_lender(text_lower) ==
    IF Contains(text_lower, <<"m", "u", "t", "h", "o", "o", "t">>) THEN <<<<"M", "u", "t", "h", "o", "o", "t">>>>
    ELSE IF Contains(text_lower, <<"m", "a", "n", "a", "p", "p", "u", "r", "a", "m">>) THEN <<<<"M", "a", "n", "a", "p", "p", "u", "r", "a", "m">>>>
    ELSE IF Contains(text_lower, <<"i", "i", "f", "l">>) THEN <<<<"I", "I", "F", "L">>>>
    ELSE << >>

\* IntentDetector::extract_slot_value(text, slot_name): None, or Some of
\* the value as a string
extract_slot_value(text, slot_name) ==
    IF slot_name = "loan_amount" THEN extract_loan_amount(to_lowercase(text))
    ELSE IF slot_name = "gold_weight" THEN extract_gold_weight(to_lowercase(text))
    ELSE IF slot_name = "current_lender" THEN extract_current_lender(to_lowercase(text))
    ELSE << >>

\* the keys of slot_patterns after register_slot_patterns
SlotPatternNames == {"loan_amount", "gold_weight", "phone", "current_lender"}

\* IntentDetector::extract_slots(text): the value found for each slot
extract_slots(text) ==
    [slot_name \in SlotPatternNames |-> extract_slot_value(text, slot_name)]

NoExtraction == [by |-> "none", result |-> << >>]

ExtractIdle ==
    /\ utterance = << >>
    /\ extracted = NoExtraction

\* the state of the objects other than the session, the tracker and the
\* memory when nothing has been done with them
RestIdle ==
    /\ RagIdle
    /\ StagesIdle
    /\ McpIdle
    /\ ExtractIdle

\* ------------------------------------------- archival memory (archival.rs)
\* Scores are f32 in [0, 1], written in hundredths.  Uuids are the integers
\* 1, 2, ..: Uuid::new_v4() gives each note an id no other note has.  A
\* time is the reading of a clock that advances with every call.  A text
\* (content, context description, query) is the set of its words; the
\* contents here have at most five words, each longer than three
\* characters and none a part of another.
MaxMemories == 10000
DefaultTopK == 5
MinSimilarity == 50

\* ArchivalMemoryConfig::default()
ArchivalMemoryConfigDefault ==
    [max_memories |-> MaxMemories, default_top_k |-> DefaultTopK,
     min_similarity |-> MinSimilarity, enable_linking |-> TRUE]

\* MemoryNote::new(session, content, ..).with_context(context)
\*     .with_keywords(keywords).with_tags(tags), made at the time now
MemoryNoteNew(id, content, context, keywords, tags, now) ==
    [id |-> id, content |-> content, context_description |-> context,
     keywords |-> keywords, tags |-> tags, links |-> {},
     created_at |-> now, last_accessed |-> now, access_count |-> 0]

\* ArchivalMemory::new(config); every note is of the one session
ArchivalMemoryNew(c) == [config |-> c, memories |-> << >>, session_index |-> << >>]

\* the ids of the stored notes
StoredIds(a) == {a.memories[i].id : i \in 1..Len(a.memories)}

\* memories.iter().find(|n| n.id == id): the index of the first note with the id, 0 if none
FindNote(memories, id) ==
    IF \E i \in 1..Len(memories) : memories[i].id = id
    THEN CHOOSE i \in 1..Len(memories) :
            /\ memories[i].id = id
            /\ \A j \in 1..(i - 1) : memories[j].id # id
    ELSE 0

\* auto_link_memory: the note gets a link to every stored note it shares
\* a keyword, a tag or a content word with; the stored notes are only read
auto_link_memory(a, note) ==
    LET related(existing) ==
            /\ existing.id # note.id
            /\ \/ note.keywords \cap existing.keywords # {}
               \/ note.tags \cap existing.tags # {}
               \/ note.content \cap existing.content # {}
    IN  [note EXCEPT !.links =
            @ \cup {a.memories[i].id : i \in {j \in 1..Len(a.memories) : related(a.memories[j])}}]

\* the comparison of maybe_evict's sort: access_count, then last_accessed
EvictedNoLater(x, y) ==
    \/ x.access_count < y.access_count
    \/ x.access_count = y.access_count /\ x.last_accessed <= y.last_accessed

\* sort_by is stable: a note goes behind the notes that do not compare greater
RECURSIVE InsertByAccess(_, _)
InsertByAccess(sorted, n) ==
    IF sorted = << >> THEN <<n>>
    ELSE IF EvictedNoLater(Head(sorted), n)
         THEN <<Head(sorted)>> \o InsertByAccess(Tail(sorted), n)
         ELSE <<n>> \o sorted

RECURSIVE SortByAccess(_)
SortByAccess(s) ==
    IF s = << >> THEN << >>
    ELSE InsertByAccess(SortByAccess(SubSeq(s, 1, Len(s) - 1)), s[Len(s)])

\* maybe_evict that drains the oldest insertions, without sorting
maybe_evict_unsorted(a) ==
    IF Len(a.memories) <= a.config.max_memories THEN a
    ELSE [a EXCEPT !.memories =
            SubSeq(@, Len(@) - a.config.max_memories + 1, Len(@))]

\* maybe_evict: over the limit, sort and drain the excess from the front
maybe_evict(a) ==
    IF Len(a.memories) <= a.config.max_memories THEN a
    ELSE LET sorted == SortByAccess(a.memories)
             to_remove == Len(sorted) - a.config.max_memories
         IN  [a EXCEPT !.memories = SubSeq(sorted, to_remove + 1, Len(sorted))]

\* insert(note): link, push, index, evict
insert(a, note) ==
    LET linked == IF a.config.enable_linking THEN auto_link_memory(a, note) ELSE note
    IN  maybe_evict([a EXCEPT !.memories = Append(@, linked),
                              !.session_index = Append(@, note.id)])

\* delete that leaves the links to the note in place
delete_keeps_links(a, id) ==
    LET keep(n) == n.id # id
        keep_id(i) == i # id
    IN  [archival |-> [a EXCEPT !.memories = SelectSeq(@, keep),
                                !.session_index = SelectSeq(@, keep_id)],
         removed |-> \E i \in 1..Len(a.memories) : a.memories[i].id = id]

\* delete(id): the archival memory afterwards and the bool returned
delete(a, id) ==
    LET keep(n) == n.id # id
        keep_id(i) == i # id
        retained == SelectSeq(a.memories, keep)
    IN  [archival |-> [a EXCEPT !.memories =
                                    [i \in 1..Len(retained) |->
                                        [retained[i] EXCEPT !.links = @ \ {id}]],
                                !.session_index = SelectSeq(@, keep_id)],
         removed |-> Len(retained) < Len(a.memories)]

\* MemoryNote::mark_accessed on the first note with the id
mark_accessed(a, id, now) ==
    LET i == FindNote(a.memories, id)
    IN  IF i = 0 THEN a
        ELSE [a EXCEPT !.memories[i].last_accessed = now,
                       !.memories[i].access_count = @ + 1]

Min(a, b) == IF a < b THEN a ELSE b

\* compute_keyword_score: a match for a query word in the content or the
\* context, one more for a query word in the keywords, over the number of
\* query words, at most 1.0
compute_keyword_score(query, note) ==
    IF query = {} THEN 0
    ELSE LET matches ==
                Cardinality({w \in query : w \in note.content \cup note.context_description})
                + Cardinality({w \in query : w \in note.keywords})
         IN  Min((100 * matches) \div Cardinality(query), 100)

\* results.sort_by(score descending), stable
RECURSIVE InsertByScore(_, _)
InsertByScore(sorted, r) ==
    IF sorted = << >> THEN <<r>>
    ELSE IF Head(sorted).score >= r.score
         THEN <<Head(sorted)>> \o InsertByScore(Tail(sorted), r)
         ELSE <<r>> \o sorted

RECURSIVE SortByScore(_)
SortByScore(s) ==
    IF s = << >> THEN << >>
    ELSE InsertByScore(SortByScore(SubSeq(s, 1, Len(s) - 1)), s[Len(s)])

RECURSIVE MarkAll(_, _, _)
MarkAll(a, ids, now) ==
    IF ids = << >> THEN a
    ELSE MarkAll(mark_accessed(a, Head(ids), now), Tail(ids), now)

\* search(query, top_k): the archival memory afterwards and the ids of
\* the results; top_k is << >> for None and <<k>> for Some(k)
search(a, query, top_k, now) ==
    LET k == IF top_k = << >> THEN a.config.default_top_k ELSE top_k[1]
        scored == [i \in 1..Len(a.memories) |->
                      [id |-> a.memories[i].id,
                       score |-> compute_keyword_score(query, a.memories[i])]]
        similar(r) == r.score >= a.config.min_similarity
        sorted == SortByScore(SelectSeq(scored, similar))
        results == SubSeq(sorted, 1, Min(k, Len(sorted)))
        ids == [i \in 1..Len(results) |-> results[i].id]
    IN  [archival |-> MarkAll(a, ids, now), results |-> ids]

\* The order a HashSet<Uuid> is iterated in is not specified; two of the
\* orders are taken here, ascending and descending ids.
LinkOrders == {"ascending", "descending"}

\* the ids of links, in the order of the iteration
RECURSIVE Iterate(_, _)
Iterate(links, order) ==
    IF links = {} THEN << >>
    ELSE LET first == CHOOSE l \in links :
                         \A m \in links : IF order = "ascending" THEN l <= m ELSE l >= m
         IN  <<first>> \o Iterate(links \ {first}, order)

\* traverse_links over the links still to iterate; vr: visited and result
RECURSIVE traverse_links(_, _, _, _, _)
traverse_links(memories, links, depth, vr, order) ==
    IF depth = 0 \/ links = << >> THEN vr
    ELSE LET link_id == Head(links)
             i == FindNote(memories, link_id)
             seen == [vr EXCEPT !.visited = @ \cup {link_id}]
         IN  IF link_id \in vr.visited
             THEN traverse_links(memories, Tail(links), depth, vr, order)
             ELSE IF i = 0
                  THEN traverse_links(memories, Tail(links), depth, seen, order)
                  ELSE traverse_links(memories, Tail(links), depth,
                           traverse_links(memories, Iterate(memories[i].links, order),
                                          depth - 1,
                                          [seen EXCEPT !.result = Append(@, link_id)],
                                          order),
                           order)

\* get_linked(id, depth): the ids of the notes returned, in their order
get_linked(a, id, depth, order) ==
    LET i == FindNote(a.memories, id)
    IN  IF depth = 0 \/ i = 0 THEN << >>
        ELSE traverse_links(a.memories, Iterate(a.memories[i].links, order), depth,
                            [visited |-> {id}, result |-> << >>], order).result

\* ------------------------------------------------ agentic memory (mod.rs)
MaxContextTokens == 4096
HighWatermarkTokens == 3072
LowWatermarkTokens == 2048

\* AgenticMemoryConfig::default()
AgenticMemoryConfigDefault ==
    [archival |-> ArchivalMemoryConfigDefault,
     max_context_tokens |-> MaxContextTokens,
     high_watermark_tokens |-> HighWatermarkTokens,
     low_watermark_tokens |-> LowWatermarkTokens,
     auto_summarize |-> TRUE]

\* Core memory: its two blocks, by the tokens they are estimated at; the
\* persona block is never empty.
CoreTokens == 512
CoreMemoryNew == [tokens |-> CoreTokens]

\* Recall memory: the FIFO of recent turns and the searchable history;
\* a turn is its seq, its role and the tokens its content is estimated at
RecallMemoryNew == [fifo |-> << >>, history |-> << >>, next_seq |-> 1]

\* recall.add_turn(turn): the turn gets a fresh seq and joins the FIFO
\* and the history
add_turn(recall, role, estimated_tokens) ==
    LET turn == [seq |-> recall.next_seq, role |-> role,
                 estimated_tokens |-> estimated_tokens]
    IN  [recall EXCEPT !.fifo = Append(@, turn),
                       !.history = Append(@, turn),
                       !.next_seq = @ + 1]

RECURSIVE SumTokens(_)
SumTokens(turns) ==
    IF turns = << >> THEN 0
    ELSE Head(turns).estimated_tokens + SumTokens(Tail(turns))

\* recall.fifo_tokens(), recall.total_tokens()
fifo_tokens(recall) == SumTokens(recall.fifo)
total_tokens(recall) == SumTokens(recall.history)

\* recall.get_pending_summarization(): the turns of the FIFO, which are
\* the turns a compaction summarises
get_pending_summarization(recall) == recall.fifo

\* AgenticMemory::new(config, session_id)
AgenticMemoryNew(c) ==
    [config |-> c, core |-> CoreMemoryNew, recall |-> RecallMemoryNew,
     archival |-> ArchivalMemoryNew(c.archival), llm |-> FALSE]

\* get_stats()
get_stats(m) ==
    LET total_context_tokens == m.core.tokens + fifo_tokens(m.recall)
    IN  [core_tokens |-> m.core.tokens,
         fifo_tokens |-> fifo_tokens(m.recall),
         recall_total_tokens |-> total_tokens(m.recall),
         archival_count |-> Len(m.archival.memories),
         total_context_tokens |-> total_context_tokens,
         above_high_watermark |-> total_context_tokens > m.config.high_watermark_tokens,
         above_max_limit |-> total_context_tokens > m.config.max_context_tokens]

\* needs_compaction()
needs_compaction(m) == get_stats(m).above_high_watermark

\* the words of a summary: of simple_summary ("User discussed: ..") when
\* there is no LLM or its call fails, of the LLM's answer otherwise
SimpleSummary == {"User", "discussed:"}
LlmSummary == {"Customer", "wants", "gold", "loan"}
summarize_turns(m, llm_ok) == IF m.llm /\ llm_ok THEN LlmSummary ELSE SimpleSummary

\* compact(): nothing pending, nothing done; else the summary of the
\* pending turns is inserted into the archival memory as a note
compact(m, llm_ok, id, now) ==
    LET pending == get_pending_summarization(m.recall)
        note == MemoryNoteNew(id, summarize_turns(m, llm_ok), {"Conversation", "summary"},
                              {}, {"summary"}, now)
    IN  IF pending = << >> THEN m
        ELSE [m EXCEPT !.archival = insert(@, note)]

\* result: what the call returned; noted: the ids of the notes an insert
\* evicted, of the notes that linked to the note a delete removed, or the
\* seqs of the turns a compaction summarised
NoMemCall == [op |-> "none", args |-> << >>, result |-> << >>, noted |-> {}]

\* ------------------------------------------------------------- helpers
RECURSIVE SumSq(_)
SumSq(s) == IF s = << >> THEN 0 ELSE Head(s) * Head(s) + SumSq(Tail(s))

\* process_audio: energy = sum(s^2) / len > 0.01.  Amplitudes are in
\* hundredths, so s^2 is in 1e-4 and the threshold 0.01 is 100.  An empty
\* frame gives 0.0/0.0 = NaN and NaN > 0.01 is false.
EnergyThreshold == 100
IsBargeInEnergy(samples) ==
    /\ Len(samples) > 0
    /\ SumSq(samples) > EnergyThreshold * Len(samples)

\* ------------------------------------------------------------ subscriber
\* last: the last event received; state: the session state according to
\* the StateChanged events; started: Started was received; reply: "open"
\* from a Speaking event to the StateChanged{Speaking, Listening} after it,
\* then "closed"; barged: BargedIn events since the last Speaking event
\* (counted up to 2).
SubInit == [last |-> << >>, state |-> "Idle", started |-> FALSE, reply |-> "none", barged |-> 0]

SubAfter(s, e) ==
    [last |-> e,
     state |-> IF e[1] = "StateChanged" THEN e[3] ELSE s.state,
     started |-> (s.started \/ e[1] = "Started"),
     reply |-> CASE e[1] = "Speaking" -> "open"
                 [] e = <<"StateChanged", "Speaking", "Listening">> /\ s.reply = "open" -> "closed"
                 [] OTHER -> s.reply,
     barged |-> CASE e[1] = "Speaking" -> 0
                  [] e[1] = "BargedIn" -> Min(s.barged + 1, 2)
                  [] OTHER -> s.barged]

\* s without its first occurrence of w
RECURSIVE Without(_, _)
Without(s, w) ==
    IF s = << >> THEN << >>
    ELSE IF Head(s) = w THEN Tail(s) ELSE <<Head(s)>> \o Without(Tail(s), w)

\* ------------------------------------------------- StreamingTts (contract)
\* active: an utterance is being synthesised; left: chunks still to emit;
\* barge: barge_in() was requested; grace: the chunk in synthesis when the
\* request arrived may still come out; sink: the task holding the receiver
\* of the event sink given to start(); sink_barged: a BargedIn waits there.
TtsIdle == [active |-> FALSE, left |-> 0, barge |-> FALSE, grace |-> FALSE,
            sink |-> 0, sink_barged |-> FALSE]

\* start(text, event_sink): an utterance of n chunks, events to t's sink
TtsStart(t, n) == [active |-> TRUE, left |-> n, barge |-> FALSE, grace |-> FALSE,
                   sink |-> t, sink_barged |-> FALSE]

\* barge_in(): request cessation (the chunk in synthesis at the first
\* request may still come out); the request may also reach the sink
TtsBargeIn(post) == [tts EXCEPT !.barge = TRUE, !.grace = (@ \/ ~tts.barge),
                                !.sink_barged = @ \/ (post /\ tts.active)]

\* reset(): prepare for the next utterance
TtsReset == [tts EXCEPT !.active = FALSE, !.left = 0, !.barge = FALSE, !.grace = FALSE]

\* TtsProcessNext whose Audio after a barge-in request leaves the grace open
TtsProcessNextKeepsGrace ==
    IF tts.barge
    THEN {<<"BargedIn", FALSE, [tts EXCEPT !.active = FALSE, !.left = 0, !.barge = FALSE, !.grace = FALSE]>>}
         \cup (IF tts.active /\ tts.grace /\ tts.left > 0
                THEN {<<"Audio", tts.left = 1, [tts EXCEPT !.left = @ - 1]>>}
                ELSE {})
    ELSE IF ~tts.active THEN {<<"None", FALSE, tts>>}
    ELSE IF tts.left = 0 THEN {<<"Complete", FALSE, [tts EXCEPT !.active = FALSE]>>}
    ELSE {<<"Audio", tts.left = 1, [tts EXCEPT !.left = @ - 1, !.active = (tts.left > 1)]>>,
          <<"Error", FALSE, [tts EXCEPT !.active = FALSE]>>}

\* process_next(): the events the TTS may return now, each with the TTS after it
TtsProcessNext ==
    IF tts.barge
    THEN {<<"BargedIn", FALSE, [tts EXCEPT !.active = FALSE, !.left = 0, !.barge = FALSE, !.grace = FALSE]>>}
         \cup (IF tts.active /\ tts.grace /\ tts.left > 0
                THEN {<<"Audio", tts.left = 1, [tts EXCEPT !.left = @ - 1, !.grace = FALSE]>>}
                ELSE {})
    ELSE IF ~tts.active THEN {<<"None", FALSE, tts>>}
    ELSE IF tts.left = 0 THEN {<<"Complete", FALSE, [tts EXCEPT !.active = FALSE]>>}
    ELSE {<<"Audio", tts.left = 1, [tts EXCEPT !.left = @ - 1, !.active = (tts.left > 1)]>>,
          <<"Error", FALSE, [tts EXCEPT !.active = FALSE]>>}

\* ------------------------------------------------- StreamingStt (contract)
\* text: the decoder holds recognised speech of the current turn
SttProcessOutcomes == {"Err", "None", "Some"}
SttAfterProcess(outcome) == IF outcome = "Some" THEN [stt EXCEPT !.text = TRUE] ELSE stt
SttFinalizeText == IF stt.text THEN "text" ELSE ""
SttAfterFinalize == [stt EXCEPT !.text = FALSE]
SttReset == [stt EXCEPT !.text = FALSE]

\* GoldLoanAgent::process and HindiG2p::convert return Ok or Err
Outcomes == {"Ok", "Err"}

\* ------------------------------------------------------- task records
\* pc: position in the method; op: the method; new_state, old_state:
\* set_state's parameter and local; cont: where set_state returns to;
\* reason: end's parameter; is_final: of the Audio event speak holds;
\* result: "none" while running, then "ok" or "err"; hist: what this
\* invocation has done so far, as <<kind, what, detail>>: the call itself
\* with its argument, reads and writes of state (<<"write", old, new>>),
\* events sent, calls into the STT, the TTS and the agent.
NoTask == [pc |-> "idle", op |-> "none", new_state |-> "Idle", old_state |-> "Idle",
           cont |-> "idle", reason |-> "", is_final |-> FALSE, result |-> "none",
           hist |-> << >>]

Fresh(o, arg) == [NoTask EXCEPT !.op = o, !.hist = << <<"call", o, arg>> >>]
At(r, p) == [r EXCEPT !.pc = p]
Did(r, what) == [r EXCEPT !.hist = Append(@, what)]

\* return from the method: the locals die, the result and the record of
\* what the invocation did stay
Ret(r, res) == [NoTask EXCEPT !.op = r.op, !.result = res, !.hist = r.hist]

\* go on after set_state returned to k; a trailing set_state returns
Continue(r, k) ==
    CASE k = "ret_ok" -> Ret(r, "ok")
      [] k = "speak_ret" -> IF r.op = "start" THEN Ret(r, "ok") ELSE At(r, "turn_reset")
      [] OTHER -> At(r, k)

\* the call self.set_state(s).await, continuing at k
CallSetState(r, s, k) == [r EXCEPT !.pc = "ss_write", !.new_state = s, !.cont = k]

\* event_tx.send(e): the subscriber receives e
Send(e) ==
    /\ subPrev' = sub
    /\ sub' = SubAfter(sub, e)
\* a step of the session: the task moves on; the tracker is not involved
Step(t, r) ==
    /\ task' = [task EXCEPT ![t] = r]
    /\ UNCHANGED <<dstVars, memVars, restVars>>

Init ==
    /\ state = "Idle"
    /\ config \in [barge_in_enabled : BOOLEAN]
    /\ sub = SubInit
    /\ subPrev = SubInit
    /\ unsent = << >>
    /\ task = [t \in Tasks |-> NoTask]
    /\ tts = TtsIdle
    /\ stt = [text |-> FALSE]
    /\ stale = FALSE
    /\ nops = 0
    /\ tracker = with_config(DstConfigDefault)
    /\ call = NoCall
    /\ dops = 0
    /\ memory = AgenticMemoryNew(AgenticMemoryConfigDefault)
    /\ mcall = NoMemCall
    /\ mops = 0
    /\ RestIdle

\* a task invokes a method
Invoke(t) ==
    /\ task[t].pc = "idle"
    /\ nops < MaxOps
    /\ nops' = nops + 1

\* ------------------------------------------------------------ set_state
\* let old_state = { let mut state = self.state.write().await;
\*                   let old = *state; *state = new_state; old };
\* then to the send if old_state != new_state, else back to the caller
Write(t, r, s, k) ==
    /\ state' = s
    /\ unsent' = IF state # s THEN Append(unsent, <<state, s>>) ELSE unsent
    /\ stale' = (stale \/ (r.op = "process_audio" /\ state = "Speaking"))
    /\ LET w == Did(r, <<"write", state, s>>)
       IN  Step(t, IF state # s
                   THEN [w EXCEPT !.pc = "ss_send", !.old_state = state,
                                  !.new_state = s, !.cont = k]
                   ELSE Continue(w, k))

SetStateWrite(t) ==
    /\ task[t].pc = "ss_write"
    /\ Write(t, task[t], task[t].new_state, task[t].cont)
    /\ UNCHANGED <<config, sub, subPrev, tts, stt, nops>>

\* if old_state != new_state { event_tx.send(StateChanged { old, new }) }
SetStateSend(t) ==
    /\ task[t].pc = "ss_send"
    /\ Send(<<"StateChanged", task[t].old_state, task[t].new_state>>)
    /\ unsent' = Without(unsent, <<task[t].old_state, task[t].new_state>>)
    /\ Step(t, Continue(Did(task[t], <<"send", "StateChanged",
                                       <<task[t].old_state, task[t].new_state>> >>), task[t].cont))
    /\ UNCHANGED <<state, config, tts, stt, stale, nops>>

\* ---------------------------------------------------------------- start
\* self.set_state(Listening).await
Start(t) ==
    /\ Invoke(t)
    /\ Write(t, Fresh("start", ""), "Listening", "start_started")
    /\ UNCHANGED <<config, sub, subPrev, tts, stt>>

\* event_tx.send(Started { session_id })
StartStarted(t) ==
    /\ task[t].pc = "start_started"
    /\ Send(<<"Started", "session">>)
    /\ Step(t, At(Did(task[t], <<"send", "Started", "session">>), "start_agent"))
    /\ UNCHANGED <<state, config, unsent, tts, stt, stale, nops>>

\* let greeting = self.agent.process("").await?; self.speak(&greeting).await?
\* (speak begins with set_state(Speaking))
StartAgent(t, outcome) ==
    /\ task[t].pc = "start_agent"
    /\ LET r == Did(task[t], <<"call", "agent.process", outcome>>)
       IN  IF outcome = "Err"
           THEN Step(t, Ret(r, "err")) /\ UNCHANGED <<state, unsent, stale>>
           ELSE Write(t, r, "Speaking", "speak_event")
    /\ UNCHANGED <<config, sub, subPrev, tts, stt, nops>>

\* ---------------------------------------------------------------- speak
\* event_tx.send(Speaking { text })
SpeakEvent(t) ==
    /\ task[t].pc = "speak_event"
    /\ Send(<<"Speaking", "text">>)
    /\ Step(t, At(Did(task[t], <<"send", "Speaking", "text">>), "speak_start"))
    /\ UNCHANGED <<state, config, unsent, tts, stt, stale, nops>>

\* g2p.convert(text)?; self.tts.start(text, tts_tx)
SpeakStart(t, outcome, n) ==
    /\ task[t].pc = "speak_start"
    /\ IF outcome = "Err"
       THEN /\ Step(t, Ret(Did(task[t], <<"call", "g2p.convert", "Err">>), "err"))
            /\ UNCHANGED tts
       ELSE /\ tts' = TtsStart(t, n)
            /\ Step(t, At(Did(task[t], <<"call", "tts.start", n>>), "speak_next"))
    /\ UNCHANGED <<state, config, sub, subPrev, unsent, stt, stale, nops>>

\* match self.tts.process_next()? { Audio => .., Complete => break,
\*     BargedIn => .., Error(e) => return Err, _ => {} }
SpeakNext(t) ==
    /\ task[t].pc = "speak_next"
    /\ \E ev \in TtsProcessNext :
        /\ tts' = ev[3]
        /\ Step(t, CASE ev[1] = "Audio" -> [task[t] EXCEPT !.pc = "speak_audio", !.is_final = ev[2]]
                     [] ev[1] = "Complete" -> CallSetState(task[t], "Listening", "speak_ret")
                     [] ev[1] = "BargedIn" -> At(task[t], "speak_barged")
                     [] ev[1] = "Error" -> Ret(Did(task[t], <<"call", "tts.process_next", "Err">>), "err")
                     [] OTHER -> At(task[t], "speak_recv"))
    /\ UNCHANGED <<state, config, sub, subPrev, unsent, stt, stale, nops>>

\* SpeakAudio that returns on the final chunk without set_state(Listening)
SpeakAudioFinalReturns(t) ==
    /\ task[t].pc = "speak_audio"
    /\ Send(<<"AudioChunk", task[t].is_final>>)
    /\ LET r == [Did(task[t], <<"send", "AudioChunk", task[t].is_final>>) EXCEPT !.is_final = FALSE]
       IN  Step(t, IF task[t].is_final
                   THEN Continue(r, "speak_ret")
                   ELSE At(r, "speak_recv"))
    /\ UNCHANGED <<state, config, unsent, tts, stt, stale, nops>>

\* Some(TtsEvent::Audio { .. }) => { send(AudioChunk); if is_final { break; } }
SpeakAudio(t) ==
    /\ task[t].pc = "speak_audio"
    /\ Send(<<"AudioChunk", task[t].is_final>>)
    /\ LET r == [Did(task[t], <<"send", "AudioChunk", task[t].is_final>>) EXCEPT !.is_final = FALSE]
       IN  Step(t, IF task[t].is_final
                   THEN CallSetState(r, "Listening", "speak_ret")
                   ELSE At(r, "speak_recv"))
    /\ UNCHANGED <<state, config, unsent, tts, stt, stale, nops>>

\* Some(TtsEvent::BargedIn { .. }) => { send(BargedIn); break; }
SpeakBarged(t) ==
    /\ task[t].pc = "speak_barged"
    /\ Send(<<"BargedIn">>)
    /\ Step(t, CallSetState(Did(task[t], <<"send", "BargedIn", "">>), "Listening", "speak_ret"))
    /\ UNCHANGED <<state, config, unsent, tts, stt, stale, nops>>

\* if let Ok(event) = tts_rx.try_recv() { if matches!(event, BargedIn) { break; } }
SpeakRecv(t) ==
    /\ task[t].pc = "speak_recv"
    /\ IF tts.sink = t /\ tts.sink_barged
       THEN /\ tts' = [tts EXCEPT !.sink_barged = FALSE]
            /\ Step(t, CallSetState(task[t], "Listening", "speak_ret"))
       ELSE /\ Step(t, At(task[t], "speak_next"))
            /\ UNCHANGED tts
    /\ UNCHANGED <<state, config, sub, subPrev, unsent, stt, stale, nops>>

\* -------------------------------------------------------- process_audio
\* let state = *self.state.read().await; match state { Listening => ..,
\*     Speaking if self.config.barge_in_enabled => .., _ => {} }
ProcessAudio(t, samples) ==
    /\ Invoke(t)
    /\ LET r == Did(Fresh("process_audio", samples), <<"read", "state", state>>)
       IN  Step(t, CASE state = "Listening" -> At(r, "pa_stt")
                     [] state = "Speaking" /\ config.barge_in_enabled ->
                            IF IsBargeInEnergy(samples)
                            THEN At(r, "barge_tts")
                            ELSE Ret(r, "ok")
                     [] OTHER -> Ret(r, "ok"))
    /\ UNCHANGED <<state, config, sub, subPrev, unsent, tts, stt, stale>>

\* if let Some(result) = self.stt.process(samples)? { send(PartialTranscript) }
ProcessAudioStt(t, outcome) ==
    /\ task[t].pc = "pa_stt"
    /\ stt' = SttAfterProcess(outcome)
    /\ LET r == Did(task[t], <<"call", "stt.process", outcome>>)
       IN  Step(t, CASE outcome = "Err" -> Ret(r, "err")
                     [] outcome = "Some" -> At(r, "pa_partial")
                     [] OTHER -> Ret(r, "ok"))
    /\ UNCHANGED <<state, config, sub, subPrev, unsent, tts, stale, nops>>

ProcessAudioPartial(t) ==
    /\ task[t].pc = "pa_partial"
    /\ Send(<<"PartialTranscript", "text">>)
    /\ Step(t, Ret(Did(task[t], <<"send", "PartialTranscript", "text">>), "ok"))
    /\ UNCHANGED <<state, config, unsent, tts, stt, stale, nops>>

\* ------------------------------------------------------- handle_barge_in
\* self.tts.barge_in()
BargeInTts(t, post) ==
    /\ task[t].pc = "barge_tts"
    /\ tts' = TtsBargeIn(post)
    /\ Step(t, At(Did(task[t], <<"call", "tts.barge_in", "">>), "barge_send"))
    /\ UNCHANGED <<state, config, sub, subPrev, unsent, stt, stale, nops>>

\* event_tx.send(BargedIn)
BargeInSend(t) ==
    /\ task[t].pc = "barge_send"
    /\ Send(<<"BargedIn">>)
    /\ Step(t, At(Did(task[t], <<"send", "BargedIn", "">>), "barge_reset"))
    /\ UNCHANGED <<state, config, unsent, tts, stt, stale, nops>>

\* BargeInReset without the set_state(Listening) that follows the reset
BargeInResetNoListening(t) ==
    /\ task[t].pc = "barge_reset"
    /\ tts' = TtsReset
    /\ Step(t, Ret(Did(task[t], <<"call", "tts.reset", "">>), "ok"))
    /\ UNCHANGED <<state, config, sub, subPrev, unsent, stt, stale, nops>>

\* self.tts.reset(); then self.set_state(Listening).await; Ok(())
BargeInReset(t) ==
    /\ task[t].pc = "barge_reset"
    /\ tts' = TtsReset
    /\ Step(t, CallSetState(Did(task[t], <<"call", "tts.reset", "">>), "Listening", "ret_ok"))
    /\ UNCHANGED <<state, config, sub, subPrev, unsent, stt, stale, nops>>

\* -------------------------------------------------------- end_user_turn
\* let state = *self.state.read().await;
\* if state != Listening { return Ok(()) }; then self.set_state(Processing).await
EndUserTurn(t) ==
    /\ Invoke(t)
    /\ LET r == Did(Fresh("end_user_turn", ""), <<"read", "state", state>>)
       IN  Step(t, IF state # "Listening"
                   THEN Ret(r, "ok")
                   ELSE CallSetState(r, "Processing", "turn_finalize"))
    /\ UNCHANGED <<state, config, sub, subPrev, unsent, tts, stt, stale>>

\* EndUserTurnFinalize without the early return on an empty transcript
EndUserTurnFinalizeNoEmptyCheck(t) ==
    /\ task[t].pc = "turn_finalize"
    /\ stt' = SttAfterFinalize
    /\ Step(t, At(Did(task[t], <<"call", "stt.finalize", SttFinalizeText>>), "turn_final"))
    /\ UNCHANGED <<state, config, sub, subPrev, unsent, tts, stale, nops>>

\* let transcript = self.stt.finalize();
\* if transcript.text.is_empty() { self.set_state(Listening).await; return Ok(()) }
EndUserTurnFinalize(t) ==
    /\ task[t].pc = "turn_finalize"
    /\ stt' = SttAfterFinalize
    /\ LET r == Did(task[t], <<"call", "stt.finalize", SttFinalizeText>>)
       IN  Step(t, IF SttFinalizeText = ""
                   THEN CallSetState(r, "Listening", "ret_ok")
                   ELSE At(r, "turn_final"))
    /\ UNCHANGED <<state, config, sub, subPrev, unsent, tts, stale, nops>>

\* event_tx.send(FinalTranscript { text })
EndUserTurnFinal(t) ==
    /\ task[t].pc = "turn_final"
    /\ Send(<<"FinalTranscript", "text">>)
    /\ Step(t, At(Did(task[t], <<"send", "FinalTranscript", "text">>), "turn_agent"))
    /\ UNCHANGED <<state, config, unsent, tts, stt, stale, nops>>

\* let response = self.agent.process(&transcript.text).await?;
\* self.speak(&response).await?  (speak begins with set_state(Speaking))
EndUserTurnAgent(t, outcome) ==
    /\ task[t].pc = "turn_agent"
    /\ LET r == Did(task[t], <<"call", "agent.process", outcome>>)
       IN  IF outcome = "Err"
           THEN Step(t, Ret(r, "err")) /\ UNCHANGED <<state, unsent, stale>>
           ELSE Write(t, r, "Speaking", "speak_event")
    /\ UNCHANGED <<config, sub, subPrev, tts, stt, nops>>

\* self.stt.reset(); Ok(())
EndUserTurnReset(t) ==
    /\ task[t].pc = "turn_reset"
    /\ stt' = SttReset
    /\ stale' = FALSE
    /\ Step(t, Ret(Did(task[t], <<"call", "stt.reset", "">>), "ok"))
    /\ UNCHANGED <<state, config, sub, subPrev, unsent, tts, nops>>

\* ------------------------------------------------------------------ end
\* self.set_state(Ended).await
End(t, reason) ==
    /\ Invoke(t)
    /\ Write(t, [Fresh("end", reason) EXCEPT !.reason = reason], "Ended", "end_send")
    /\ UNCHANGED <<config, sub, subPrev, tts, stt>>

\* EndSend with a fixed reason in place of the caller's
EndSendFixedReason(t) ==
    /\ task[t].pc = "end_send"
    /\ Send(<<"Ended", "done">>)
    /\ Step(t, Ret(Did(task[t], <<"send", "Ended", "done">>), "ok"))
    /\ UNCHANGED <<state, config, unsent, tts, stt, stale, nops>>

\* event_tx.send(Ended { reason })
EndSend(t) ==
    /\ task[t].pc = "end_send"
    /\ Send(<<"Ended", task[t].reason>>)
    /\ Step(t, Ret(Did(task[t], <<"send", "Ended", task[t].reason>>), "ok"))
    /\ UNCHANGED <<state, config, unsent, tts, stt, stale, nops>>

Next ==
    \E t \in Tasks :
        \/ SetStateWrite(t)
        \/ SetStateSend(t)
        \/ Start(t)
        \/ StartStarted(t)
        \/ \E o \in Outcomes : StartAgent(t, o)
        \/ SpeakEvent(t)
        \/ \E o \in Outcomes, n \in 0..MaxChunks : SpeakStart(t, o, n)
        \/ SpeakNext(t)
        \/ SpeakAudio(t)
        \/ SpeakBarged(t)
        \/ SpeakRecv(t)
        \/ \E f \in Frames : ProcessAudio(t, f)
        \/ \E o \in SttProcessOutcomes : ProcessAudioStt(t, o)
        \/ ProcessAudioPartial(t)
        \/ \E post \in BOOLEAN : BargeInTts(t, post)
        \/ BargeInSend(t)
        \/ BargeInReset(t)
        \/ EndUserTurn(t)
        \/ EndUserTurnFinalize(t)
        \/ EndUserTurnFinal(t)
        \/ \E o \in Outcomes : EndUserTurnAgent(t, o)
        \/ EndUserTurnReset(t)
        \/ \E r \in Reasons : End(t, r)
        \/ EndSend(t)

Spec == Init /\ [][Next]_vars

\* ======================================================================
\* Dialogue state tracker: the calls made on it, one at a time
\* ======================================================================
\* a Slot of a DetectedIntent: a value with a confidence, or no value
SlotEntries(n) ==
    {[name |-> n, value |-> v, confidence |-> c] : v \in SlotValues(n), c \in Confidences}
    \cup {[name |-> n, value |-> None, confidence |-> 60]}
\* intent.slots as the sequence in which the map iterates: no slot, one
\* slot, or both in either order
IntentSlots ==
    {<< >>}
    \cup {<<e>> : e \in UNION {SlotEntries(n) : n \in SlotNames}}
    \cup {<<e, f>> : e \in SlotEntries("gold_weight"), f \in SlotEntries("loan_amount")}
    \cup {<<f, e>> : e \in SlotEntries("gold_weight"), f \in SlotEntries("loan_amount")}
DetectedIntents ==
    {[intent |-> i, confidence |-> IntentConfidence, slots |-> q] :
        i \in IntentNames, q \in IntentSlots}

DstInit ==
    /\ state = "Idle"
    /\ config = [barge_in_enabled |-> TRUE]
    /\ sub = SubInit
    /\ subPrev = SubInit
    /\ unsent = << >>
    /\ task = [t \in Tasks |-> NoTask]
    /\ tts = TtsIdle
    /\ stt = [text |-> FALSE]
    /\ stale = FALSE
    /\ nops = 0
    /\ tracker \in {with_config(c) : c \in DstConfigs}
    /\ call = NoCall
    /\ dops = 0
    /\ memory = AgenticMemoryNew(AgenticMemoryConfigDefault)
    /\ mcall = NoMemCall
    /\ mops = 0
    /\ RestIdle

\* a call on the tracker; the voice session is not involved
DstCall(op, args) ==
    /\ dops < MaxDstOps
    /\ dops' = dops + 1
    /\ call' = [op |-> op, turn_index |-> Len(tracker.history), args |-> args]
    /\ UNCHANGED <<vars, memVars, restVars>>

\* tracker.update(&intent)
Update(intent) ==
    /\ DstCall("update", <<intent>>)
    /\ tracker' = update(tracker, intent)

\* tracker.update_slot(slot_name, value, confidence, source, turn_index),
\* the caller passing the length of the history as update does
UpdateSlot(slot_name, value, confidence, source) ==
    /\ DstCall("update_slot", <<slot_name, value, confidence, source>>)
    /\ tracker' = update_slot(tracker, slot_name, value, confidence, source,
                              Len(tracker.history))

\* tracker.confirm_slot(slot_name)
ConfirmSlot(slot_name) ==
    /\ DstCall("confirm_slot", <<slot_name>>)
    /\ tracker' = confirm_slot(tracker, slot_name)

\* tracker.clear_slot(slot_name)
ClearSlot(slot_name) ==
    /\ DstCall("clear_slot", <<slot_name>>)
    /\ tracker' = clear_slot(tracker, slot_name)

\* tracker.state_mut().mark_pending(slot_name)
MarkPending(slot_name) ==
    /\ DstCall("mark_pending", <<slot_name>>)
    /\ tracker' = [tracker EXCEPT !.state = mark_pending(@, slot_name)]

\* tracker.state_mut().mark_confirmed(slot_name)
MarkConfirmed(slot_name) ==
    /\ DstCall("mark_confirmed", <<slot_name>>)
    /\ tracker' = [tracker EXCEPT !.state = mark_confirmed(@, slot_name)]

DstNext ==
    \/ \E intent \in DetectedIntents : Update(intent)
    \/ \E n \in SlotNames, c \in Confidences, src \in {"UserUtterance", "Correction"} :
          \E v \in SlotValues(n) : UpdateSlot(n, v, c, src)
    \/ \E n \in SlotNames : ConfirmSlot(n)
    \/ \E n \in SlotNames : ClearSlot(n)
    \/ \E n \in SlotNames : MarkPending(n)
    \/ \E n \in SlotNames : MarkConfirmed(n)

DstSpec == DstInit /\ [][DstNext]_dstVars

\* ======================================================================
\* Goals: a tracker whose slots were filled, its goal updated and read
\* ======================================================================
\* the slots the goals and the reads below look at, each with a sample value
GoalSlotNames ==
    {"customer_name", "phone_number", "location", "gold_weight", "loan_amount",
     "current_lender", "current_interest_rate"}
GoalSlotValue(n) ==
    CASE n = "customer_name" -> "Rahul"
      [] n = "phone_number" -> "9876543210"
      [] n = "location" -> "Mumbai"
      [] n = "gold_weight" -> "50"
      [] n = "loan_amount" -> "500000"
      [] n = "current_lender" -> "Muthoot"
      [] OTHER -> "18"
GoalSlotConfidence == 90
\* one intent for each goal from_intent knows, and two it maps to exploration
GoalIntents ==
    {"switch_lender", "eligibility_check", "loan_inquiry", "schedule_visit",
     "callback_request", "send_sms", "unknown"}

\* state.set_slot_value(n, ..) for every n of filled
RECURSIVE Filled(_, _)
Filled(st, filled) ==
    IF filled = {} THEN st
    ELSE LET n == CHOOSE m \in filled : TRUE
         IN  Filled(set_slot_value(st, n, GoalSlotValue(n), GoalSlotConfidence), filled \ {n})

GoalInit ==
    /\ state = "Idle"
    /\ config = [barge_in_enabled |-> TRUE]
    /\ sub = SubInit
    /\ subPrev = SubInit
    /\ unsent = << >>
    /\ task = [t \in Tasks |-> NoTask]
    /\ tts = TtsIdle
    /\ stt = [text |-> FALSE]
    /\ stale = FALSE
    /\ nops = 0
    /\ \E filled \in SUBSET GoalSlotNames :
          tracker = [with_config(DstConfigDefault) EXCEPT !.state = Filled(@, filled)]
    /\ call = NoCall
    /\ dops = 0
    /\ memory = AgenticMemoryNew(AgenticMemoryConfigDefault)
    /\ mcall = NoMemCall
    /\ mops = 0
    /\ RestIdle

\* state_mut().update_goal_from_intent(intent, turn), the turns counted from 1
StateUpdateGoalFromIntent(intent) ==
    /\ dops < MaxGoalOps
    /\ dops' = dops + 1
    /\ call' = [op |-> "state_update_goal_from_intent", turn_index |-> dops + 1,
                args |-> <<intent>>]
    /\ tracker' = [tracker EXCEPT !.state = state_update_goal_from_intent(@, intent, dops + 1)]
    /\ UNCHANGED <<vars, memVars, restVars>>

\* tracker.update_goal_from_intent(intent, turn)
UpdateGoalFromIntent(intent) ==
    /\ dops < MaxGoalOps
    /\ dops' = dops + 1
    /\ call' = [op |-> "update_goal_from_intent", turn_index |-> dops + 1,
                args |-> <<intent>>]
    /\ tracker' = update_goal_from_intent(tracker, intent, dops + 1)
    /\ UNCHANGED <<vars, memVars, restVars>>

\* tracker.is_intent_complete(intent): a read, recorded with what it returned
IsIntentComplete(intent) ==
    /\ call' = [op |-> "is_intent_complete", turn_index |-> 0,
                args |-> <<intent, is_intent_complete(tracker, intent)>>]
    /\ UNCHANGED <<tracker, dops>>
    /\ UNCHANGED <<vars, memVars, restVars>>

\* tracker.state().get_next_action()
GetNextAction ==
    /\ call' = [op |-> "get_next_action", turn_index |-> 0,
                args |-> <<get_next_action(tracker.state)>>]
    /\ UNCHANGED <<tracker, dops>>
    /\ UNCHANGED <<vars, memVars, restVars>>

\* tracker.should_auto_capture_lead()
ShouldAutoCaptureLead ==
    /\ call' = [op |-> "should_auto_capture_lead", turn_index |-> 0,
                args |-> <<should_auto_capture_lead(tracker.state)>>]
    /\ UNCHANGED <<tracker, dops>>
    /\ UNCHANGED <<vars, memVars, restVars>>

GoalNext ==
    \/ \E intent \in GoalIntents : StateUpdateGoalFromIntent(intent)
    \/ \E intent \in GoalIntents : UpdateGoalFromIntent(intent)
    \/ \E intent \in GoalIntents : IsIntentComplete(intent)
    \/ GetNextAction
    \/ ShouldAutoCaptureLead

GoalSpec == GoalInit /\ [][GoalNext]_dstVars

\* ======================================================================
\* Intents: the intents recorded on a fresh dialogue state
\* ======================================================================
TrackedIntents == {"loan_inquiry", "eligibility_check", "switch_lender", "schedule_visit"}
TrackedConfidences == {80, 85, 90}

IntentInit ==
    /\ state = "Idle"
    /\ config = [barge_in_enabled |-> TRUE]
    /\ sub = SubInit
    /\ subPrev = SubInit
    /\ unsent = << >>
    /\ task = [t \in Tasks |-> NoTask]
    /\ tts = TtsIdle
    /\ stt = [text |-> FALSE]
    /\ stale = FALSE
    /\ nops = 0
    /\ tracker = with_config(DstConfigDefault)
    /\ call = NoCall
    /\ dops = 0
    /\ memory = AgenticMemoryNew(AgenticMemoryConfigDefault)
    /\ mcall = NoMemCall
    /\ mops = 0
    /\ RestIdle

\* state_mut().update_intent(intent, confidence)
UpdateIntent(intent, confidence) ==
    /\ dops < MaxIntentOps
    /\ dops' = dops + 1
    /\ call' = [op |-> "update_intent", turn_index |-> 0, args |-> <<intent, confidence>>]
    /\ tracker' = [tracker EXCEPT !.state = update_intent(@, intent, confidence)]
    /\ UNCHANGED <<vars, memVars, restVars>>

IntentNext ==
    \E intent \in TrackedIntents, confidence \in TrackedConfidences :
        UpdateIntent(intent, confidence)

IntentSpec == IntentInit /\ [][IntentNext]_dstVars

\* ======================================================================
\* Archival memory: the calls made on memory.archival, one at a time
\* ======================================================================
\* the keywords of the notes inserted, and the words searched for
KeywordSets == {{"gold"}, {"gold", "loan"}, {"loan"}}
QueryWords == {"gold", "loan"}
TopKs == {<< >>, <<1>>}
Capacities == {2, 4}
MaxDepth == 2         \* links followed by one get_linked

ArchInit ==
    /\ state = "Idle"
    /\ config = [barge_in_enabled |-> TRUE]
    /\ sub = SubInit
    /\ subPrev = SubInit
    /\ unsent = << >>
    /\ task = [t \in Tasks |-> NoTask]
    /\ tts = TtsIdle
    /\ stt = [text |-> FALSE]
    /\ stale = FALSE
    /\ nops = 0
    /\ tracker = with_config(DstConfigDefault)
    /\ call = NoCall
    /\ dops = 0
    /\ \E max_memories \in Capacities, enable_linking \in BOOLEAN :
          memory = AgenticMemoryNew([AgenticMemoryConfigDefault EXCEPT
                                         !.archival.max_memories = max_memories,
                                         !.archival.enable_linking = enable_linking])
    /\ mcall = NoMemCall
    /\ mops = 0
    /\ RestIdle

\* memory.archival.insert(MemoryNote::new(..).with_keywords(keywords))
ArchivalInsert(keywords) ==
    /\ mops < MaxArchOps
    /\ mops' = mops + 1
    /\ LET id == mops + 1
           note == MemoryNoteNew(id, {}, {}, keywords, {}, mops + 1)
           after == insert(memory.archival, note)
       IN  /\ memory' = [memory EXCEPT !.archival = after]
           /\ mcall' = [op |-> "insert", args |-> <<keywords>>, result |-> id,
                        noted |-> (StoredIds(memory.archival) \cup {id}) \ StoredIds(after)]
    /\ UNCHANGED <<vars, dstVars, restVars>>

\* memory.archival.search(word, top_k)
ArchivalSearch(word, top_k) ==
    /\ mops < MaxArchOps
    /\ mops' = mops + 1
    /\ LET found == search(memory.archival, {word}, top_k, mops + 1)
       IN  /\ memory' = [memory EXCEPT !.archival = found.archival]
           /\ mcall' = [op |-> "search", args |-> <<word, top_k>>,
                        result |-> found.results, noted |-> {}]
    /\ UNCHANGED <<vars, dstVars, restVars>>

\* memory.archival.delete(id), of an id that was given to a note
ArchivalDelete ==
    /\ mops < MaxArchOps
    /\ mops' = mops + 1
    /\ \E id \in 1..mops :
          LET deleted == delete(memory.archival, id)
              a == memory.archival
          IN  /\ memory' = [memory EXCEPT !.archival = deleted.archival]
              /\ mcall' = [op |-> "delete", args |-> <<id>>, result |-> deleted.removed,
                           noted |-> {a.memories[i].id : i \in
                                        {j \in 1..Len(a.memories) : id \in a.memories[j].links}}]
    /\ UNCHANGED <<vars, dstVars, restVars>>

\* memory.archival.get_linked(id, depth): a read
ArchivalGetLinked ==
    /\ \E id \in 1..mops, depth \in 0..MaxDepth, order \in LinkOrders :
          mcall' = [op |-> "get_linked", args |-> <<id, depth>>,
                    result |-> get_linked(memory.archival, id, depth, order), noted |-> {}]
    /\ UNCHANGED <<memory, mops>>
    /\ UNCHANGED <<vars, dstVars, restVars>>

ArchNext ==
    \/ \E keywords \in KeywordSets : ArchivalInsert(keywords)
    \/ \E word \in QueryWords, top_k \in TopKs : ArchivalSearch(word, top_k)
    \/ ArchivalDelete
    \/ ArchivalGetLinked

ArchSpec == ArchInit /\ [][ArchNext]_memVars

\* ======================================================================
\* Agentic memory: turns added and compactions, one call at a time
\* ======================================================================
\* the tokens a turn is estimated at: contents of 4096 and of 8192 bytes
TurnTokens == {1024, 2048}

MemInit ==
    /\ state = "Idle"
    /\ config = [barge_in_enabled |-> TRUE]
    /\ sub = SubInit
    /\ subPrev = SubInit
    /\ unsent = << >>
    /\ task = [t \in Tasks |-> NoTask]
    /\ tts = TtsIdle
    /\ stt = [text |-> FALSE]
    /\ stale = FALSE
    /\ nops = 0
    /\ tracker = with_config(DstConfigDefault)
    /\ call = NoCall
    /\ dops = 0
    /\ memory = AgenticMemoryNew(AgenticMemoryConfigDefault)
    /\ mcall = NoMemCall
    /\ mops = 0
    /\ RestIdle

\* add_user_turn(content)
AddUserTurn(estimated_tokens) ==
    /\ mops < MaxMemOps
    /\ mops' = mops + 1
    /\ memory' = [memory EXCEPT !.recall = add_turn(@, "User", estimated_tokens)]
    /\ mcall' = [op |-> "add_user_turn", args |-> <<estimated_tokens>>,
                 result |-> memory.recall.next_seq, noted |-> {}]
    /\ UNCHANGED <<vars, dstVars, restVars>>

\* add_assistant_turn(content)
AddAssistantTurn(estimated_tokens) ==
    /\ mops < MaxMemOps
    /\ mops' = mops + 1
    /\ memory' = [memory EXCEPT !.recall = add_turn(@, "Assistant", estimated_tokens)]
    /\ mcall' = [op |-> "add_assistant_turn", args |-> <<estimated_tokens>>,
                 result |-> memory.recall.next_seq, noted |-> {}]
    /\ UNCHANGED <<vars, dstVars, restVars>>

\* set_llm(llm)
SetLlm ==
    /\ ~memory.llm
    /\ memory' = [memory EXCEPT !.llm = TRUE]
    /\ mcall' = [op |-> "set_llm", args |-> << >>, result |-> << >>, noted |-> {}]
    /\ UNCHANGED mops
    /\ UNCHANGED <<vars, dstVars, restVars>>

\* compact().await, made when needs_compaction() says so; llm_ok: the
\* LLM, if there is one, answers
Compact(llm_ok) ==
    /\ mops < MaxMemOps
    /\ needs_compaction(memory)
    /\ mops' = mops + 1
    /\ memory' = compact(memory, llm_ok, mops + 1, mops + 1)
    /\ mcall' = [op |-> "compact", args |-> <<llm_ok>>, result |-> "Ok",
                 noted |-> {get_pending_summarization(memory.recall)[i].seq :
                              i \in 1..Len(get_pending_summarization(memory.recall))}]
    /\ UNCHANGED <<vars, dstVars, restVars>>

\* get_stats(): a read
GetStats ==
    /\ mcall' = [op |-> "get_stats", args |-> << >>, result |-> get_stats(memory),
                 noted |-> {}]
    /\ UNCHANGED <<memory, mops>>
    /\ UNCHANGED <<vars, dstVars, restVars>>

MemNext ==
    \/ \E estimated_tokens \in TurnTokens : AddUserTurn(estimated_tokens)
    \/ \E estimated_tokens \in TurnTokens : AddAssistantTurn(estimated_tokens)
    \/ SetLlm
    \/ \E llm_ok \in BOOLEAN : Compact(llm_ok)
    \/ GetStats

MemSpec == MemInit /\ [][MemNext]_memVars

\* ======================================================================
\* Prefetch: the agent's prefetch calls, the retrievals they start and
\* the clock
\* ======================================================================
Partials == {<<"g", " ", "l">>, <<"G", " ", "l">>, <<"g">>, <<"l", " ", "g", " ", "l">>}
Queries == {<<"g", " ", "l">>, <<"l">>, <<"G">>}
Documents == {<<"d1">>, <<"d2">>}
RetrievalOutcomes == {[ok |-> FALSE, results |-> << >>], [ok |-> TRUE, results |-> << >>]}
                \cup {[ok |-> TRUE, results |-> r] : r \in Documents}
MinWords == {1, 2}
CacheTtlSecs == {2, 5}
Elapses == {1, 4, 11}

\* the session, the tracker and the memory with nothing done
CoreIdle ==
    /\ state = "Idle"
    /\ config = [barge_in_enabled |-> TRUE]
    /\ sub = SubInit
    /\ subPrev = SubInit
    /\ unsent = << >>
    /\ task = [t \in Tasks |-> NoTask]
    /\ tts = TtsIdle
    /\ stt = [text |-> FALSE]
    /\ stale = FALSE
    /\ nops = 0
    /\ tracker = with_config(DstConfigDefault)
    /\ call = NoCall
    /\ dops = 0
    /\ memory = AgenticMemoryNew(AgenticMemoryConfigDefault)
    /\ mcall = NoMemCall
    /\ mops = 0

RagInit ==
    /\ CoreIdle
    /\ StagesIdle
    /\ McpIdle
    /\ ExtractIdle
    /\ \E rag_enabled \in BOOLEAN, retriever \in BOOLEAN,
          min_words \in MinWords, cache_ttl_secs \in CacheTtlSecs :
          agent = DomainAgentNew(rag_enabled, retriever, min_words, cache_ttl_secs)
    /\ rcall = NoRagCall
    /\ rops = 0
    /\ clock = 0

Remove(q, i) == SubSeq(q, 1, i - 1) \o SubSeq(q, i + 1, Len(q))

\* prefetch_on_partial(partial, confidence), up to its await
PrefetchOnPartial(partial, should_prefetch) ==
    /\ rops < MaxRagOps
    /\ rops' = rops + 1
    /\ IF prefetch_on_partial_skips(agent, partial, should_prefetch, clock)
       THEN /\ rcall' = [op |-> "prefetch_on_partial", args |-> <<partial>>,
                         result |-> <<FALSE>>]
            /\ UNCHANGED agent
       ELSE /\ Len(agent.tasks) < MaxInFlight
            /\ agent' = [agent EXCEPT !.tasks = Append(@, [by |-> "prefetch_on_partial",
                                                           partial |-> partial])]
            /\ rcall' = [op |-> "prefetch_on_partial", args |-> <<partial>>,
                         result |-> << >>]
    /\ UNCHANGED clock
    /\ UNCHANGED ragOthers

\* the retrieval of a prefetch_on_partial ends, and the call returns
OnPartialReturns(i, outcome) ==
    /\ i \in 1..Len(agent.tasks)
    /\ agent.tasks[i].by = "prefetch_on_partial"
    /\ agent' = prefetch_on_partial_completes([agent EXCEPT !.tasks = Remove(@, i)],
                                              agent.tasks[i].partial, outcome, clock)
    /\ rcall' = [op |-> "prefetch_on_partial returns",
                 args |-> <<agent.tasks[i].partial, outcome>>,
                 result |-> <<prefetch_on_partial_returns(outcome)>>]
    /\ UNCHANGED <<rops, clock>>
    /\ UNCHANGED ragOthers

\* prefetch_background(partial, confidence)
PrefetchBackground(partial) ==
    /\ rops < MaxRagOps
    /\ rops' = rops + 1
    /\ IF prefetch_background_skips(agent, partial, clock)
       THEN UNCHANGED agent
       ELSE /\ Len(agent.tasks) < MaxInFlight
            /\ agent' = [agent EXCEPT !.tasks = Append(@, [by |-> "prefetch_background",
                                                           partial |-> partial])]
    /\ rcall' = [op |-> "prefetch_background", args |-> <<partial>>, result |-> << >>]
    /\ UNCHANGED clock
    /\ UNCHANGED ragOthers

\* the task spawned by a prefetch_background ends
BackgroundTaskEnds(i, outcome) ==
    /\ i \in 1..Len(agent.tasks)
    /\ agent.tasks[i].by = "prefetch_background"
    /\ agent' = background_task_completes([agent EXCEPT !.tasks = Remove(@, i)],
                                          agent.tasks[i].partial, outcome, clock)
    /\ rcall' = [op |-> "background task ends",
                 args |-> <<agent.tasks[i].partial, outcome>>, result |-> << >>]
    /\ UNCHANGED <<rops, clock>>
    /\ UNCHANGED ragOthers

\* get_prefetch_results(query): a read
GetPrefetchResults(query) ==
    /\ rcall' = [op |-> "get_prefetch_results", args |-> <<query>>,
                 result |-> get_prefetch_results(agent, query, clock)]
    /\ UNCHANGED <<agent, rops, clock>>
    /\ UNCHANGED ragOthers

\* clear_prefetch_cache()
ClearPrefetchCache ==
    /\ rops < MaxRagOps
    /\ rops' = rops + 1
    /\ agent' = clear_prefetch_cache(agent)
    /\ rcall' = [op |-> "clear_prefetch_cache", args |-> << >>, result |-> << >>]
    /\ UNCHANGED clock
    /\ UNCHANGED ragOthers

\* time passes
Elapse(secs) ==
    /\ rops < MaxRagOps
    /\ rops' = rops + 1
    /\ clock' = clock + secs
    /\ rcall' = [op |-> "elapse", args |-> <<secs>>, result |-> << >>]
    /\ UNCHANGED agent
    /\ UNCHANGED ragOthers

RagNext ==
    \/ \E partial \in Partials, should_prefetch \in BOOLEAN :
          PrefetchOnPartial(partial, should_prefetch)
    \/ \E i \in 1..MaxInFlight, outcome \in RetrievalOutcomes : OnPartialReturns(i, outcome)
    \/ \E partial \in Partials : PrefetchBackground(partial)
    \/ \E i \in 1..MaxInFlight, outcome \in RetrievalOutcomes : BackgroundTaskEnds(i, outcome)
    \/ \E query \in Queries : GetPrefetchResults(query)
    \/ ClearPrefetchCache
    \/ \E secs \in Elapses : Elapse(secs)

RagSpec == RagInit /\ [][RagNext]_ragVars

\* ======================================================================
\* Stages: a stage configuration as loaded, and the calls on it
\* ======================================================================
MaxTurns == 2
StageIds == {"greeting", "discovery", "qualification"}
StageIntents == {"greeting", "loan_inquiry"}
ConfiguredStages == {"greeting", "discovery"}
ConfiguredIntents == {"greeting"}
TransitionLists == {<< >>, <<"discovery">>, <<"discovery", "qualification">>}
TransitionTargets == {Simple("discovery"), Complex("discovery", 1), Complex("qualification", 2)}

\* the maps from some of the keys to the values
PartialMaps(keys, values) == UNION {[d -> values] : d \in SUBSET keys}

\* the configurations serde_yaml can give: any stages, any intent
\* transitions
StagesConfigs ==
    {[stages |-> st, intent_transitions |-> it] :
        st \in PartialMaps(ConfiguredStages, {[transitions |-> l] : l \in TransitionLists}),
        it \in PartialMaps(ConfiguredIntents,
                           PartialMaps(ConfiguredStages, TransitionTargets))}

StageInit ==
    /\ CoreIdle
    /\ RagIdle
    /\ McpIdle
    /\ ExtractIdle
    /\ stages_config \in StagesConfigs
    /\ scall = NoStageCall

\* is_valid_transition(from, to)
IsValidTransition(from, to) ==
    /\ scall' = [op |-> "is_valid_transition", args |-> <<from, to>>,
                 result |-> <<is_valid_transition(stages_config, from, to)>>]
    /\ UNCHANGED stages_config
    /\ UNCHANGED stageOthers

\* get_intent_transition(intent, current_stage)
GetIntentTransition(intent, current_stage) ==
    /\ scall' = [op |-> "get_intent_transition", args |-> <<intent, current_stage>>,
                 result |-> get_intent_transition(stages_config, intent, current_stage)]
    /\ UNCHANGED stages_config
    /\ UNCHANGED stageOthers

\* can_transition_on_intent(intent, current_stage, current_turns)
CanTransitionOnIntent(intent, current_stage, current_turns) ==
    /\ scall' = [op |-> "can_transition_on_intent",
                 args |-> <<intent, current_stage, current_turns>>,
                 result |-> can_transition_on_intent(stages_config, intent,
                                                     current_stage, current_turns)]
    /\ UNCHANGED stages_config
    /\ UNCHANGED stageOthers

StageNext ==
    \/ \E from \in StageIds, to \in StageIds : IsValidTransition(from, to)
    \/ \E intent \in StageIntents, current_stage \in StageIds :
          GetIntentTransition(intent, current_stage)
    \/ \E intent \in StageIntents, current_stage \in StageIds, current_turns \in 0..MaxTurns :
          CanTransitionOnIntent(intent, current_stage, current_turns)

StageSpec == StageInit /\ [][StageNext]_stageVars

\* ======================================================================
\* MCP: a request as deserialized, and the response of the endpoint
\* ======================================================================
JsonRpcVersions == {"2.0", "1.0", ""}
RequestIds == {<< >>, <<1>>, <<2>>}
Methods == {TOOLS_LIST, TOOLS_CALL, "tools/get", "initialize"}
ToolNames == {"get_gold_price", "check_eligibility"}
\* the params of a request: None, a value that is no ToolCallParams, or
\* one that is
Params == {<< >>, <<[parses |-> FALSE]>>}
              \cup {<<[parses |-> TRUE, name |-> n]>> : n \in ToolNames \cup {"no_such_tool"}}
JsonRpcRequests ==
    [jsonrpc : JsonRpcVersions, id : RequestIds, method : Methods, params : Params]
ToolErrors == {"InvalidParams", "NotFound", "Timeout", "Internal"}
Executions ==
    {[ok |-> TRUE, content |-> <<"Text">>, is_error |-> e] : e \in BOOLEAN}
        \cup {[ok |-> FALSE, tool_error |-> t] : t \in ToolErrors}

McpInit ==
    /\ CoreIdle
    /\ RagIdle
    /\ StagesIdle
    /\ ExtractIdle
    /\ request \in JsonRpcRequests
    /\ response = NoResponse

\* POST /mcp: handle_mcp_request on the request
HandleMcpRequest(executed) ==
    /\ response = NoResponse
    /\ response' = handle_mcp_request(ToolNames, request, executed)
    /\ UNCHANGED request
    /\ UNCHANGED mcpOthers

McpNext == \E executed \in Executions : HandleMcpRequest(executed)

McpSpec == McpInit /\ [][McpNext]_mcpVars

\* ======================================================================
\* Extraction: an utterance, and what the two extractors find in it
\* ======================================================================
MaxTokens == 2
Tokens ==
    {<<"5">>,
     <<"3", ".", "5">>,
     <<"2", "0", "0">>,
     <<"5", "0", "0", "0", "0">>,
     <<"9", "8", "7", "6", "5", "4", "3", "2", "1", "0">>,
     <<"1", ",", "0", "0", ",", "0", "0", "0">>,
     <<"c", "r", "o", "r", "e">>,
     <<"L", "a", "k", "h">>,
     <<"t", "h", "o", "u", "s", "a", "n", "d">>,
     <<"r", "s">>,
     <<"l", "o", "a", "n">>,
     <<"d", "o">>}

\* the tokens with one space between them
RECURSIVE Join(_)
Join(tokens) ==
    IF tokens = << >> THEN << >>
    ELSE IF Len(tokens) = 1 THEN tokens[1]
    ELSE tokens[1] \o <<Space>> \o Join(Tail(tokens))

Utterances == {Join(tokens) : tokens \in UNION {[1..n -> Tokens] : n \in 0..MaxTokens}}

ExtractInit ==
    /\ CoreIdle
    /\ RagIdle
    /\ StagesIdle
    /\ McpIdle
    /\ utterance \in Utterances
    /\ extracted = NoExtraction

\* SlotExtractor::extract_amount(utterance)
ExtractAmount ==
    /\ extracted' = [by |-> "extract_amount", result |-> extract_amount(utterance)]
    /\ UNCHANGED utterance
    /\ UNCHANGED extractOthers

\* IntentDetector::extract_slots(text)
ExtractSlots ==
    /\ extracted' = [by |-> "extract_slots", result |-> extract_slots(utterance)]
    /\ UNCHANGED utterance
    /\ UNCHANGED extractOthers

ExtractNext ==
    \/ ExtractAmount
    \/ ExtractSlots

ExtractSpec == ExtractInit /\ [][ExtractNext]_extractVars

\* ======================================================================
\* Properties
\* ======================================================================
Has(h, e) == \E i \in 1..Len(h) : h[i] = e
IsWrite(e) == e[1] = "write"
\* the states an invocation wrote, in order
NewStates(h) == LET w == SelectSeq(h, IsWrite) IN [i \in 1..Len(w) |-> w[i][3]]
Returned(t, o) == task[t].op = o /\ task[t].pc = "idle" /\ task[t].result # "none"
Running(t, o) == task[t].op = o /\ task[t].pc # "idle"

\* the state graph of the orchestrator: the transition table, with the
\* greeting of start() spoken from Listening
Graph ==
    {<<"Idle", "Listening">>, <<"Listening", "Processing">>, <<"Processing", "Listening">>,
     <<"Processing", "Speaking">>, <<"Listening", "Speaking">>, <<"Speaking", "Listening">>}
    \cup {<<s, "Ended">> : s \in VoiceSessionState \ {"Ended"}}

\* C1: every StateChanged{old, new} a subscriber receives is an edge of the
\* state graph, and its old state is the new state of the StateChanged
\* received before it (Idle for the first).
EventsFollowStateGraph ==
    (sub.last # << >> /\ sub.last[1] = "StateChanged")
        => /\ sub.last[2] = subPrev.state
           /\ <<sub.last[2], sub.last[3]>> \in Graph

\* C2: a method that returned an error has put the session back in
\* Listening: the last state it wrote is Listening, never Processing or
\* Speaking (or it wrote none, the error having come up in Listening).
ErrorReturnsToListening ==
    \A t \in Tasks :
        LET n == NewStates(task[t].hist) IN
        task[t].result = "err"
            => \/ n = << >> /\ task[t].hist[2] = <<"read", "state", "Listening">>
               \/ n # << >> /\ n[Len(n)] = "Listening"

\* C3: an end(reason) that found the session in a state other than Ended
\* wrote Ended, announced that change, and sent Ended with the reason it
\* was called with as its last act.
EndMovesToEndedAndEmitsReason ==
    \A t \in Tasks :
        LET h == task[t].hist IN
        (Returned(t, "end") /\ h[2][2] # "Ended")
            => /\ h[2] = <<"write", h[2][2], "Ended">>
               /\ h[3] = <<"send", "StateChanged", <<h[2][2], "Ended">> >>
               /\ Len(h) = 4
               /\ h[4][1] = "send" /\ h[4][2] = "Ended" /\ h[4][3] = h[1][3]
               /\ task[t].result = "ok"

\* C3 witness: an end("timeout") on a Listening session has returned
EndedFromListening ==
    \E t \in Tasks :
        /\ Returned(t, "end")
        /\ task[t].hist[1][3] = "timeout"
        /\ task[t].hist[2][2] = "Listening"

\* an end_user_turn that saw Listening and has not yet handed the session
\* back: it is about to write Processing, or its last write is not Listening
InTurn(t) ==
    /\ Running(t, "end_user_turn")
    /\ LET n == NewStates(task[t].hist)
       IN  n = << >> \/ n[Len(n)] # "Listening"

\* C4: transitions are serialized: at most one end_user_turn at a time
\* acts on an observed Listening state.
OneTurnAtATime == Cardinality({t \in Tasks : InTurn(t)}) <= 1

\* the speak of u announced its reply and then the return to Listening
SpeakAnnouncedListening(u) ==
    /\ Has(task[u].hist, <<"send", "Speaking", "text">>)
    /\ Has(task[u].hist, <<"send", "StateChanged", <<"Speaking", "Listening">> >>)

\* C5: the (first) BargedIn of a reply is not received after the
\* StateChanged{Speaking, Listening} with which the speak loop ended
\* that reply.
BargeInBeforeListening ==
    (/\ sub.last # << >> /\ sub.last[1] = "BargedIn"
     /\ subPrev.barged = 0
     /\ \E u \in Tasks : SpeakAnnouncedListening(u))
        => subPrev.reply # "closed"

\* C6: a process_audio that read Speaking, with barge-in enabled and a
\* frame above the energy threshold, has called tts.barge_in(), then sent
\* BargedIn, then written Listening by the time it returns.
BargeInOnSpeechWhileSpeaking ==
    \A t \in Tasks :
        LET h == task[t].hist IN
        (/\ Returned(t, "process_audio")
         /\ h[2][3] = "Speaking"
         /\ config.barge_in_enabled
         /\ IsBargeInEnergy(h[1][3]))
            => /\ task[t].result = "ok"
               /\ \E i, j, k \in 1..Len(h) :
                     /\ i < j /\ j < k
                     /\ h[i][1] = "call" /\ h[i][2] = "tts.barge_in"
                     /\ h[j][1] = "send" /\ h[j][2] = "BargedIn"
                     /\ h[k][1] = "write" /\ h[k][3] = "Listening"

\* C6 witness: such a process_audio has returned, having moved the state
\* from Speaking to Listening
BargedInFromSpeaking ==
    \E t \in Tasks :
        /\ Returned(t, "process_audio")
        /\ task[t].hist[2][3] = "Speaking"
        /\ IsBargeInEnergy(task[t].hist[1][3])
        /\ Has(task[t].hist, <<"write", "Speaking", "Listening">>)

\* C7: no frame is forwarded to the STT between a barge-in that took the
\* session from Speaking to Listening and the next reset of the STT.
SttResetBeforeForwarding ==
    [][\A t \in Tasks :
          (task[t].pc = "pa_stt" /\ task'[t].pc # "pa_stt") => ~stale]_vars

\* C8: on start() of a fresh session Started is received before
\* StateChanged{Idle, Listening}, and that before the greeting's Speaking.
StartedBeforeStateChanged ==
    /\ sub.last = <<"StateChanged", "Idle", "Listening">> => subPrev.started
    /\ (sub.last # << >> /\ sub.last[1] = "Speaking") => subPrev.state # "Idle"

\* C9: StateChanged events are sent in the order in which the writes they
\* announce took effect.
EventsInWriteOrder ==
    [][\A t \in Tasks :
          (task[t].pc = "ss_send" /\ task'[t].pc # "ss_send")
              => Head(unsent) = <<task[t].old_state, task[t].new_state>>]_vars

\* C10: an end_user_turn that read Listening and got an empty transcript
\* from stt.finalize() writes Processing and then Listening, sends nothing
\* but StateChanged, and calls nothing but stt.finalize().
EmptyTranscriptReturnsToListening ==
    \A t \in Tasks :
        LET h == task[t].hist IN
        (task[t].op = "end_user_turn" /\ Has(h, <<"call", "stt.finalize", "">>))
            => /\ h[2][3] = "Listening"
               /\ \A i \in 2..Len(h) :
                     /\ h[i][1] = "send" => h[i][2] = "StateChanged"
                     /\ h[i][1] = "call" => h[i][2] = "stt.finalize"
               /\ Returned(t, "end_user_turn")
                     => NewStates(h) = <<"Processing", "Listening">> /\ task[t].result = "ok"

\* C10 witness: such a turn has returned, Listening -> Processing -> Listening
EmptyTurnDone ==
    \E t \in Tasks :
        /\ Returned(t, "end_user_turn")
        /\ Has(task[t].hist, <<"call", "stt.finalize", "">>)
        /\ Has(task[t].hist, <<"write", "Listening", "Processing">>)
        /\ Has(task[t].hist, <<"write", "Processing", "Listening">>)

\* C11: an invocation that returned an error (of the agent, the G2P or
\* the TTS) has sent an Error event to the subscribers, and has not moved
\* the session to Ended.
ErrorEventEmitted ==
    \A t \in Tasks :
        LET h == task[t].hist IN
        task[t].result = "err"
            => /\ \E i \in 1..Len(h) : h[i][1] = "send" /\ h[i][2] = "Error"
               /\ \A i \in 1..Len(h) : h[i][1] = "write" => h[i][3] # "Ended"

StartOkEndsListening ==
    \A t \in Tasks :
        LET n == NewStates(task[t].hist) IN
        (/\ Returned(t, "start") /\ task[t].result = "ok"
         /\ task[t].hist[2] = <<"write", "Idle", "Listening">>)
            => /\ n[Len(n)] = "Listening"
               /\ (\A u \in Tasks \ {t} : task[u].op = "none") => state = "Listening"

\* C13 witness: start() on the Idle session has returned Ok after the
\* final chunk of the greeting, nothing else having been invoked
StartedAndListening ==
    \E t \in Tasks :
        /\ Returned(t, "start") /\ task[t].result = "ok"
        /\ task[t].hist[2] = <<"write", "Idle", "Listening">>
        /\ Has(task[t].hist, <<"send", "AudioChunk", TRUE>>)
        /\ \A u \in Tasks \ {t} : task[u].op = "none"

\* ------------------------------------------- dialogue state tracker
\* the slot's value, None if it is not filled
Value(d, s) == get_slot_value(d.state, s)
\* the indices of the StateChanges of slot s that the step appends
AppendedFor(s) ==
    {i \in (Len(tracker.history) + 1)..Len(tracker'.history) :
        tracker'.history[i].slot_name = s}
\* the values the intent carries for slot s
Carried(intent, s) ==
    {intent.slots[i].value : i \in {j \in 1..Len(intent.slots) : intent.slots[j].name = s}}
\* the last call was an update that wrote slot s, whose value is still that one
SetByLastUpdate(s) ==
    /\ call.op = "update"
    /\ Value(tracker, s) # None
    /\ \E i \in (call.turn_index + 1)..Len(tracker.history) :
          /\ tracker.history[i].slot_name = s
          /\ tracker.history[i].new_value = Value(tracker, s)

\* C14: with enable_corrections, if the previous update set slot s to v1
\* and this update carries another value v2 for s, then afterwards s holds
\* v2 and this update has appended exactly one Correction-sourced
\* StateChange for s, from v1 to v2.
CorrectionAfterContradiction ==
    [][\A s \in SlotNames :
          (/\ tracker.config.enable_corrections
           /\ SetByLastUpdate(s)
           /\ call'.op = "update"
           /\ Carried(call'.args[1], s) \ {None, Value(tracker, s)} # {})
              => LET corr == {i \in AppendedFor(s) : tracker'.history[i].source = "Correction"}
                 IN  /\ Value(tracker', s) \in Carried(call'.args[1], s)
                     /\ Cardinality(corr) = 1
                     /\ \A i \in corr :
                           /\ tracker'.history[i].old_value = Value(tracker, s)
                           /\ tracker'.history[i].new_value = Value(tracker', s)]_dstVars

\* C15: every slot in confirmed_slots has a stored confidence, which is
\* 1.0, and is not in pending_slots.
ConfirmedHasFullConfidence ==
    \A n \in tracker.state.confirmed_slots :
        /\ n \in DOMAIN tracker.state.slots
        /\ tracker.state.slots[n].confidence = FullConfidence
        /\ n \notin tracker.state.pending_slots

\* C16: no slot is in both pending_slots and confirmed_slots.
PendingConfirmedDisjoint ==
    tracker.state.pending_slots \cap tracker.state.confirmed_slots = {}

\* C16 witness: a slot that update_slot left pending has been confirmed
\* and is now in confirmed_slots
PendingThenConfirmed ==
    /\ call.op \in {"confirm_slot", "mark_confirmed"}
    /\ call.args[1] \in tracker.state.confirmed_slots
    /\ tracker.history # << >>
    /\ tracker.history[1].slot_name = call.args[1]
    /\ tracker.history[1].source = "UserUtterance"
    /\ tracker.history[1].new_value # None
    /\ tracker.history[1].confidence < tracker.config.auto_confirm_confidence

\* C17: every slot in pending_slots or confirmed_slots is filled.
MarkedSlotsAreFilled ==
    \A n \in tracker.state.pending_slots \cup tracker.state.confirmed_slots :
        Value(tracker, n) # None

\* C18: a call of update, update_slot, confirm_slot or clear_slot that
\* changes the value of a slot appends StateChanges for that slot; the
\* ones a call appends for a slot lead from its value before the call to
\* its value after it; confirm_slot and clear_slot append exactly one.
HistoryReflectsWrites ==
    [][(call'.op \in {"update", "update_slot", "confirm_slot", "clear_slot"})
          => /\ \A i \in 1..Len(tracker.history) : tracker'.history[i] = tracker.history[i]
             /\ \A s \in SlotNames :
                   LET app == AppendedFor(s) IN
                   /\ Value(tracker', s) # Value(tracker, s) => app # {}
                   /\ \A i \in app :
                         /\ tracker'.history[i].old_value =
                               IF \E j \in app : j < i
                               THEN tracker'.history[CHOOSE j \in app :
                                        j < i /\ \A k \in app : k < i => k <= j].new_value
                               ELSE Value(tracker, s)
                         /\ (\A j \in app : j <= i)
                               => tracker'.history[i].new_value = Value(tracker', s)
                   /\ (call'.op \in {"confirm_slot", "clear_slot"} /\ call'.args[1] = s)
                         => Cardinality(app) = 1]_dstVars

\* C18 witness: clear_slot has emptied a filled slot and recorded it
ClearedAndRecorded ==
    /\ call.op = "clear_slot"
    /\ Value(tracker, call.args[1]) = None
    /\ tracker.history[Len(tracker.history)].slot_name = call.args[1]
    /\ tracker.history[Len(tracker.history)].old_value # None
    /\ tracker.history[Len(tracker.history)].new_value = None

\* C19: an update leaves alone every slot that its intent carries with a
\* confidence below min_slot_confidence: the stored value of the slot is
\* the same afterwards and no StateChange for it is appended.
LowConfidenceRejected ==
    [][call'.op = "update"
          => \A i \in 1..Len(call'.args[1].slots) :
                LET e == call'.args[1].slots[i] IN
                e.confidence < tracker.config.min_slot_confidence
                    => /\ Value(tracker', e.name) = Value(tracker, e.name)
                       /\ AppendedFor(e.name) = {}]_dstVars

\* C20: a slot that update or update_slot writes, with the confidence c
\* of the StateChange recorded for the write, is afterwards in
\* confirmed_slots and not in pending_slots if c >= auto_confirm_confidence,
\* and in pending_slots and not in confirmed_slots otherwise.
WrittenSlotLandsByConfidence ==
    [][(call'.op \in {"update", "update_slot"})
          => \A s \in SlotNames : \A i \in AppendedFor(s) :
                IF tracker'.history[i].confidence >= tracker.config.auto_confirm_confidence
                THEN /\ s \in tracker'.state.confirmed_slots
                     /\ s \notin tracker'.state.pending_slots
                ELSE /\ s \in tracker'.state.pending_slots
                     /\ s \notin tracker'.state.confirmed_slots]_dstVars

\* C20 witness: one update has written both slots, gold_weight at the
\* auto-confirm threshold or above and loan_amount below it
ConfirmedAndPendingWritten ==
    /\ call.op = "update"
    /\ Len(tracker.history) = 2
    /\ \E i, j \in 1..2 :
          /\ tracker.history[i].slot_name = "gold_weight"
          /\ tracker.history[i].confidence >= tracker.config.auto_confirm_confidence
          /\ tracker.history[j].slot_name = "loan_amount"
          /\ tracker.history[j].confidence < tracker.config.auto_confirm_confidence
    /\ "gold_weight" \in tracker.state.confirmed_slots
    /\ "loan_amount" \in tracker.state.pending_slots

\* C21: when is_intent_complete(intent) has returned true, the next best
\* action of the intent's goal on the filled slots is not AskFor of a
\* required slot of that goal.
CompleteImpliesNoAsk ==
    (call.op = "is_intent_complete" /\ call.args[2])
        => LET goal == from_intent(call.args[1])
               action == next_action(goal, filled_slots(tracker.state))
           IN  ~(action[1] = "AskFor" /\ InSeq(required_slots(goal), action[2]))

\* the upgrade transitions between goals other than exploration
UpgradeTransitions ==
    {<<"balance_transfer", "lead_capture">>, <<"balance_transfer", "branch_visit">>,
     <<"new_loan", "lead_capture">>, <<"new_loan", "branch_visit">>,
     <<"eligibility_check", "new_loan">>, <<"eligibility_check", "lead_capture">>}

\* C22: update_goal_from_intent, on the state or on the tracker, changes
\* the goal only from exploration or along an upgrade transition, and
\* never to exploration.
GoalOnlyUpgrades ==
    [][(/\ call'.op \in {"state_update_goal_from_intent", "update_goal_from_intent"}
        /\ tracker'.state.conversation_goal # tracker.state.conversation_goal)
          => /\ tracker'.state.conversation_goal # "exploration"
             /\ \/ tracker.state.conversation_goal = "exploration"
                \/ <<tracker.state.conversation_goal, tracker'.state.conversation_goal>>
                      \in UpgradeTransitions]_dstVars

\* C23: an update at turn t whose intent maps to a goal g, made while the
\* goal is exploration, leaves the goal g and goal_set_turn t.
GoalUpdatedByUpdate ==
    [][(/\ call'.op = "update"
        /\ tracker.state.conversation_goal = "exploration"
        /\ from_intent(call'.args[1].intent) # "exploration")
          => /\ tracker'.state.conversation_goal = from_intent(call'.args[1].intent)
             /\ tracker'.state.goal_set_turn = call'.turn_index]_dstVars

\* C24: should_auto_capture_lead() returns true exactly when the goal is
\* not lead_capture and customer_name and phone_number are both set.
AutoCaptureIffContact ==
    (call.op = "should_auto_capture_lead" /\ tracker.state.conversation_goal \in ConversationGoal)
        => (call.args[1] <=> /\ tracker.state.conversation_goal # "lead_capture"
                             /\ "customer_name" \in filled_slots(tracker.state)
                             /\ "phone_number" \in filled_slots(tracker.state))

\* C25: update_intent with an intent other than the primary one makes it
\* the primary intent, with its confidence, and the previous primary
\* intent, if there was one, is among the secondary intents afterwards.
IntentPromoted ==
    [][(call'.op = "update_intent" /\ call'.args[1] # tracker.state.primary_intent)
          => /\ tracker'.state.primary_intent = call'.args[1]
             /\ tracker'.state.intent_confidence = call'.args[2]
             /\ tracker.state.primary_intent # None
                   => InSeq(tracker'.state.secondary_intents, tracker.state.primary_intent)]_dstVars

\* C25 witness: eligibility_check was recorded after loan_inquiry
PromotedAndDemoted ==
    /\ call.op = "update_intent"
    /\ dops = 2
    /\ tracker.state.primary_intent = "eligibility_check"
    /\ tracker.state.secondary_intents = <<"loan_inquiry">>

\* C26: after a compaction the tokens of the core memory and of the FIFO
\* together are at most max_context_tokens, and no turn the compaction
\* summarised is in the FIFO.
CompactionBoundsContext ==
    mcall.op = "compact"
        => /\ memory.core.tokens + fifo_tokens(memory.recall)
                <= memory.config.max_context_tokens
           /\ \A i \in 1..Len(memory.recall.fifo) :
                 memory.recall.fifo[i].seq \notin mcall.noted

\* the ids reachable from the ids of s by at most d links of stored notes
RECURSIVE ReachWithin(_, _, _)
ReachWithin(a, s, d) ==
    IF d = 0 THEN s
    ELSE ReachWithin(a,
             s \cup UNION {a.memories[i].links :
                              i \in {j \in 1..Len(a.memories) : a.memories[j].id \in s}},
             d - 1)

\* C27: get_linked(id, depth) returns each note at most once, and the
\* notes returned are exactly the stored notes other than id that are
\* reachable from id by at most depth links.
LinkedAreReachable ==
    mcall.op = "get_linked"
        => LET ids == mcall.result
               a == memory.archival
           IN  /\ \A i, j \in 1..Len(ids) : ids[i] = ids[j] => i = j
               /\ {ids[i] : i \in 1..Len(ids)} =
                     (ReachWithin(a, {mcall.args[1]}, mcall.args[2]) \cap StoredIds(a))
                         \ {mcall.args[1]}

\* C28: after an insert with linking enabled, every stored note the new
\* note links to links back to the new note.
LinksBothWays ==
    (mcall.op = "insert" /\ memory.archival.config.enable_linking)
        => \A i, j \in 1..Len(memory.archival.memories) :
              LET n == memory.archival.memories[i]
                  e == memory.archival.memories[j]
              IN  (n.id = mcall.result /\ e.id \in n.links) => n.id \in e.links

\* C29: after delete(id) no stored note has the id and no stored note's
\* links contain it.
DeletedIsGone ==
    mcall.op = "delete"
        => /\ mcall.args[1] \notin StoredIds(memory.archival)
           /\ \A i \in 1..Len(memory.archival.memories) :
                 mcall.args[1] \notin memory.archival.memories[i].links

\* C29 witness: a stored note was deleted that a note still stored linked to
DeletedWasLinked ==
    /\ mcall.op = "delete"
    /\ mcall.result
    /\ mcall.noted # {}
    /\ mcall.noted \subseteq StoredIds(memory.archival)

\* access_count and last_accessed of the notes of s, by id
AccessKeys(s) ==
    {[id |-> s[i].id, access_count |-> s[i].access_count,
      last_accessed |-> s[i].last_accessed] : i \in 1..Len(s)}

\* C30: after insert the number of stored notes is the number before plus
\* one, cut to max_memories, and no note removed comes after a note kept
\* in the order of (access_count, last_accessed) ascending.
CapacityKept ==
    [][mcall'.op = "insert"
         => LET a == memory.archival
                kept == AccessKeys(memory'.archival.memories)
                removed == (AccessKeys(a.memories)
                              \cup {[id |-> mcall'.result, access_count |-> 0,
                                     last_accessed |-> mops']}) \ kept
            IN  /\ Len(memory'.archival.memories) <= a.config.max_memories
                /\ Len(memory'.archival.memories) =
                      Min(Len(a.memories) + 1, a.config.max_memories)
                /\ \A r \in removed, k \in kept : EvictedNoLater(r, k)]_memVars

\* C30 witness: an insert evicted a note while an older note, which had
\* been accessed, was kept
EvictedOnInsert ==
    /\ mcall.op = "insert"
    /\ mcall.noted # {}
    /\ \E i \in 1..Len(memory.archival.memories) :
          /\ memory.archival.memories[i].access_count > 0
          /\ \E e \in mcall.noted : memory.archival.memories[i].id < e

\* C37: every link of a stored note is the id of a stored note.
LinksAreStored ==
    \A i \in 1..Len(memory.archival.memories) :
        memory.archival.memories[i].links \subseteq StoredIds(memory.archival)

\* C38: when get_next_action() returns CallTool, every required slot of
\* the current goal is filled.
CallToolOnlyWhenFilled ==
    (/\ call.op = "get_next_action"
     /\ call.args[1][1] = "CallTool"
     /\ tracker.state.conversation_goal \in ConversationGoal)
        => \A i \in 1..Len(required_slots(tracker.state.conversation_goal)) :
              required_slots(tracker.state.conversation_goal)[i]
                  \in filled_slots(tracker.state)

\* C39: the primary intent is never among the secondary intents.
PrimaryNotSecondary ==
    ~InSeq(tracker.state.secondary_intents, tracker.state.primary_intent)

\* C35: once the session state is Ended, no step changes it.
EndedIsAbsorbing ==
    [][state = "Ended" => state' = "Ended"]_vars

\* C36: a subscriber receives at most one BargedIn between one Speaking
\* event and the next.
OneBargedInPerReply ==
    sub.barged <= 1

Configured(c, intent, stage) ==
    /\ intent \in DOMAIN c.intent_transitions
    /\ stage \in DOMAIN c.intent_transitions[intent]
TargetOnlyAfterMinTurns ==
    scall.op = "can_transition_on_intent" =>
        LET intent == scall.args[1]
            stage == scall.args[2]
            turns == scall.args[3]
        IN  IF /\ Configured(stages_config, intent, stage)
               /\ \/ stages_config.intent_transitions[intent][stage].variant = "Simple"
                  \/ turns >= stages_config.intent_transitions[intent][stage].min_turns
            THEN scall.result = <<stages_config.intent_transitions[intent][stage].target>>
            ELSE scall.result = << >>
\* a transition with min_turns is asked for too early
AskedBeforeMinTurns ==
    /\ scall.op = "can_transition_on_intent"
    /\ Configured(stages_config, scall.args[1], scall.args[2])
    /\ stages_config.intent_transitions[scall.args[1]][scall.args[2]].variant = "Complex"
    /\ scall.args[3] < stages_config.intent_transitions[scall.args[1]][scall.args[2]].min_turns
    /\ scall.result = << >>

\* C40: a target that can_transition_on_intent returns for a stage is in
\* that stage's allowed transitions.
IntentTargetIsAllowed ==
    (scall.op = "can_transition_on_intent" /\ scall.result # << >>)
        => is_valid_transition(stages_config, scall.args[2], scall.result[1])

\* C33: a request whose jsonrpc is not "2.0" is answered with the error
\* -32600 whatever its method; otherwise one whose method is neither
\* tools/list nor tools/call is answered with -32601; and a tools/call
\* whose params are missing or do not parse is answered with -32602.
IsError(r, code) == r.variant = "error" /\ r.error.code = code
FaultsGetTheirCodes ==
    response # NoResponse =>
        /\ request.jsonrpc # "2.0" => IsError(response, -32600)
        /\ (request.jsonrpc = "2.0" /\ request.method \notin {"tools/list", "tools/call"})
              => IsError(response, -32601)
        /\ (/\ request.jsonrpc = "2.0"
            /\ request.method = "tools/call"
            /\ (request.params = << >> \/ ~request.params[1].parses))
              => IsError(response, -32602)
\* a tools/call of the wrong version has been answered
WrongVersionToolsCallAnswered ==
    /\ response # NoResponse
    /\ request.jsonrpc # "2.0"
    /\ request.method = "tools/call"
    /\ request.params # << >>

\* C32: an amount that an extractor returns is at most 10^9 and is not a
\* ten-digit number that begins with 6, 7, 8 or 9.
SaneAmount(n) == ~NumberLess(Billion, n) /\ ~(n.frac = << >> /\ LooksLikePhone(n.int))
ExtractAmountIsSane ==
    (extracted.by = "extract_amount" /\ extracted.result # << >>)
        => SaneAmount(extracted.result[1].amount)
ExtractSlotsIsSane ==
    (extracted.by = "extract_slots" /\ extracted.result["loan_amount"] # << >>)
        => SaneAmount(parse_f64(extracted.result["loan_amount"][1]))
AmountsAreSane == ExtractAmountIsSane /\ ExtractSlotsIsSane
====
